---------------------------- MODULE Spec2Model ----------------------------
(***************************************************************************)
(* State-machine model of the ectoplasm DEX contracts: the Pair (pool),    *)
(* the Router, and the collaborators they call (formula layer, LP-share    *)
(* ledger, Token Ledger, pool registry).                                   *)
(*                                                                         *)
(* Every contract entry point is one action.  An entry point that returns  *)
(* Err(DexError) RETURNS: the DEX contracts hand errors back as ordinary   *)
(* Result values (pair.rs:117, router.rs:97 `pair_ref.mint(to)?`), they do *)
(* not call env().revert as the launchpad contracts do, so the storage     *)
(* writes made before the `return Err(..)` stay written.                   *)
(***************************************************************************)
EXTENDS Integers, Sequences, FiniteSets, TLC

(***************************************************************************)
(* Bounds of the model.                                                    *)
(***************************************************************************)
\* the block time at which the calls are made
BlockTime == 1
\* largest amount a caller passes to an entry point
MaxAmount == 3
\* number of top-level calls in one behaviour
MaxCalls == 4
\* largest deposit drawn for the first-mint specification
MaxDeposit == 10
\* largest reserve / quoted amount drawn for the quoting specification
MaxReserve == 4
\* reserve of each side of the two pools of the multi-hop specification
HopReserve == 10
\* number of Router swaps in one behaviour of the multi-hop specification
MaxHopCalls == 2
\* largest reserve / amount drawn for the quoted-swap specification
MaxQuotedReserve == 8
\* number of Router swaps in one behaviour of the quoted-swap specification
MaxQuotedCalls == 2
\* the tokens Alice holds, per token, in the quoted-swap specification
QuotedFunds == 100
\* largest amount passed to a LaunchToken entry point
MaxTokenAmount == 2
\* number of LaunchToken calls in one behaviour
MaxTokenCalls == 3
\* number of TokenFactory calls in one behaviour
MaxFactoryCalls == 3
\* largest value passed to a TokenFactory setter
MaxSetting == 2
CurveThreshold == 6
CurveFeeBps == 2500
MaxCurveCalls == 4

(***************************************************************************)
(* Addresses.  Address is totally ordered (pair.rs:52 `token0 < token1`);  *)
(* the model uses integers so that the order is the integer order.         *)
(***************************************************************************)
TokenA == 1
TokenB == 2
TokenC == 3
Alice == 11
Bob == 12
RouterAddr == 20
NoAddress == 0

Min2(a, b) == IF a < b THEN a ELSE b
Max2(a, b) == IF a < b THEN b ELSE a

(***************************************************************************)
(* Result<T, DexError>                                                     *)
(***************************************************************************)
Ok(v) == [ok |-> TRUE, val |-> v, err |-> "None"]
Err(e) == [ok |-> FALSE, val |-> <<>>, err |-> e]

(***************************************************************************)
(* Arithmetic safety layer (crate::math::SafeMath): checked operations on  *)
(* U256.  Every value of the model stays far below 2^256, so add and mul   *)
(* have no reachable Overflow outcome here.                                *)
(***************************************************************************)
SafeAdd(a, b) == Ok(a + b)
SafeSub(a, b) == IF b > a THEN Err("Underflow") ELSE Ok(a - b)
SafeMul(a, b) == Ok(a * b)
SafeDiv(a, b) == IF b = 0 THEN Err("DivisionByZero") ELSE Ok(a \div b)

(***************************************************************************)
(* AMM formulas (crate::math::AmmMath)                                     *)
(***************************************************************************)
\* shares locked at the first deposit; the model scales the quantity down
MINIMUM_LIQUIDITY == 1

RECURSIVE SqrtIter(_, _, _)
SqrtIter(y, z, x) ==
    IF x < z THEN SqrtIter(y, x, (y \div x + x) \div 2) ELSE z

\* integer square root (Babylonian iteration), floor(sqrt(y))
Sqrt(y) ==
    IF y > 3 THEN SqrtIter(y, y, y \div 2 + 1)
    ELSE IF y = 0 THEN 0 ELSE 1

\* quote(amount_a, reserve_a, reserve_b) = amount_a * reserve_b / reserve_a
Quote(amount_a, reserve_a, reserve_b) ==
    IF reserve_a = 0 THEN Err("InsufficientLiquidity")
    ELSE SafeDiv(amount_a * reserve_b, reserve_a)

\* get_amount_out without the 0.3% fee
GetAmountOut_NoFee(amount_in, reserve_in, reserve_out) ==
    IF reserve_in = 0 \/ reserve_out = 0 THEN Err("InsufficientLiquidity")
    ELSE SafeDiv(amount_in * reserve_out, reserve_in + amount_in)

GetAmountOut(amount_in, reserve_in, reserve_out) ==
    IF reserve_in = 0 \/ reserve_out = 0 THEN Err("InsufficientLiquidity")
    ELSE LET amount_in_with_fee == amount_in * 997
             numerator == amount_in_with_fee * reserve_out
             denominator == reserve_in * 1000 + amount_in_with_fee
         IN  SafeDiv(numerator, denominator)

GetAmountIn(amount_out, reserve_in, reserve_out) ==
    IF amount_out >= reserve_out THEN Err("InsufficientLiquidity")
    ELSE LET numerator == reserve_in * amount_out * 1000
             denominator == (reserve_out - amount_out) * 997
             q == SafeDiv(numerator, denominator)
         IN  IF q.ok THEN Ok(q.val + 1) ELSE q

CalculateLiquidity(amount0, amount1, reserve0, reserve1, total_supply) ==
    IF total_supply = 0
    THEN SafeSub(Sqrt(amount0 * amount1), MINIMUM_LIQUIDITY)
    ELSE LET l0 == SafeDiv(amount0 * total_supply, reserve0)
             l1 == SafeDiv(amount1 * total_supply, reserve1)
         IN  IF ~l0.ok THEN l0
             ELSE IF ~l1.ok THEN l1
             ELSE Ok(Min2(l0.val, l1.val))

CalculateBurnAmounts(liquidity, reserve0, reserve1, total_supply) ==
    LET a0 == SafeDiv(liquidity * reserve0, total_supply)
        a1 == SafeDiv(liquidity * reserve1, total_supply)
    IN  IF ~a0.ok THEN a0
        ELSE IF ~a1.ok THEN a1
        ELSE Ok(<<a0.val, a1.val>>)


(***************************************************************************)
(* The world the contracts run in: one record holding every contract's     *)
(* storage, so that a call and the calls nested in it compose.             *)
(*   created                 pool registry: the pools created so far       *)
(*   token0 .. locked        the Pair fields, per pool address             *)
(*   lp_balances, lp_total_supply   the LP-share ledger embedded in a Pair *)
(*   balances                the Token Ledger of each asset                *)
(*   events                  the events emitted by the running call        *)
(***************************************************************************)
Out(w, res) == [w |-> w, res |-> res]

Emit(w, e) == [w EXCEPT !.events = Append(@, e)]

(***************************************************************************)
(* Token Ledger (CEP-18): balance_of / transfer / transfer_from.  transfer *)
(* moves exactly `amount` and answers false when the sender's balance is   *)
(* too small.                                                              *)
(***************************************************************************)
TokenBalanceOf(w, token, owner) == w.balances[token][owner]

TokenTransfer(w, token, from, to, amount) ==
    IF w.balances[token][from] < amount
    THEN [w |-> w, ok |-> FALSE]
    ELSE [w |-> [w EXCEPT !.balances[token] =
                    [@ EXCEPT ![from] = @ - amount, ![to] = @ + amount]],
          ok |-> TRUE]

(***************************************************************************)
(* LP-share ledger embedded in the Pair (crate::token::LpToken)            *)
(***************************************************************************)
LpMint(w, p, to, amount) ==
    [w EXCEPT !.lp_balances[p][to] = @ + amount,
              !.lp_total_supply[p] = @ + amount]

LpBurn(w, p, from, amount) ==
    [w EXCEPT !.lp_balances[p][from] = @ - amount,
              !.lp_total_supply[p] = @ - amount]

LpTransfer(w, p, from, to, amount) ==
    IF w.lp_balances[p][from] < amount
    THEN [w |-> w, ok |-> FALSE]
    ELSE [w |-> [w EXCEPT !.lp_balances[p] =
                    [@ EXCEPT ![from] = @ - amount, ![to] = @ + amount]],
          ok |-> TRUE]

(***************************************************************************)
(* Pair: internal functions                                                *)
(***************************************************************************)
\* Pair::lock without the test of the flag
Lock_NoCheck(w, p) ==
    Out([w EXCEPT !.locked[p] = TRUE], Ok(<<>>))

Lock(w, p) ==
    IF w.locked[p] THEN Out(w, Err("Locked"))
    ELSE Out([w EXCEPT !.locked[p] = TRUE], Ok(<<>>))

Unlock(w, p) == [w EXCEPT !.locked[p] = FALSE]

\* update_reserves without the Sync event
UpdateReserves_Silent(w, p, balance0, balance1, now_) ==
    [w EXCEPT !.reserve0[p] = balance0,
              !.reserve1[p] = balance1,
              !.block_timestamp_last[p] = now_]

UpdateReserves(w, p, balance0, balance1, now_) ==
    Emit([w EXCEPT !.reserve0[p] = balance0,
                   !.reserve1[p] = balance1,
                   !.block_timestamp_last[p] = now_], "Sync")

(***************************************************************************)
(* Re-entrant callbacks.  While the pool calls balance_of / transfer of a  *)
(* token, the Token Ledger may call one entry point of the same pool.  A   *)
(* callback cb = [site, op, to, a0, a1] runs op at the site-th ledger call *)
(* of the outer entry point; the nested call itself gets no callback.      *)
(***************************************************************************)
NoCb == [site |-> 0, op |-> "none", to |-> NoAddress, a0 |-> 0, a1 |-> 0]

RECURSIVE NestedCall(_, _, _, _, _)

\* the nested call's outcome n is kept in the world for the observer
Observed(n) == [n.w EXCEPT !.nested = n.res.err]

RunCb(w, p, cb, now_, site) ==
    IF cb.op = "none" \/ cb.site # site THEN w
    ELSE Observed(NestedCall(w, p, w.token0[p], cb, now_))

\* the answer of balance_of in the world w
BalanceIn(w, token, p) == [w |-> w, val |-> TokenBalanceOf(w, token, p)]

\* balance_of may call back into the pool before it answers
GetTokenBalance(w, p, token, cb, now_, site) ==
    BalanceIn(RunCb(w, p, cb, now_, site), token, p)

\* transfer may call back into the pool after it moved the amount
SafeTransfer(w, p, token, to, amount, cb, now_, site) ==
    LET t == TokenTransfer(w, token, p, to, amount)
    IN  IF ~t.ok THEN Out(t.w, Err("TransferFailed"))
        ELSE Out(RunCb(t.w, p, cb, now_, site), Ok(<<>>))

\* the two reads `balance0 = get_token_balance(token0)` and
\* `balance1 = get_token_balance(token1)`, the ledger calls site and site + 1
Balances_Both(val0, b1) == [w |-> b1.w, val0 |-> val0, val1 |-> b1.val]

Balances_Token1(b0, p, cb, now_, site) ==
    Balances_Both(b0.val, GetTokenBalance(b0.w, p, b0.w.token1[p], cb, now_, site))

Balances(w, p, cb, now_, site) ==
    Balances_Token1(GetTokenBalance(w, p, w.token0[p], cb, now_, site),
                    p, cb, now_, site + 1)

\* safe_transfer(token0, to, amount0)?; safe_transfer(token1, to, amount1)?;
\* send0 / send1 tell whether the code makes the transfer at all
SafeTransfers_Token1(x0, p, to, amount1, send1, cb, now_, site) ==
    IF ~x0.res.ok THEN x0
    ELSE IF send1
    THEN SafeTransfer(x0.w, p, x0.w.token1[p], to, amount1, cb, now_, site)
    ELSE x0

SafeTransfers(w, p, to, amount0, amount1, send0, send1, cb, now_, site) ==
    SafeTransfers_Token1(
        IF send0
        THEN SafeTransfer(w, p, w.token0[p], to, amount0, cb, now_, site)
        ELSE Out(w, Ok(<<>>)),
        p, to, amount1, send1, cb, now_, site + 1)

(***************************************************************************)
(* Pair::init                                                              *)
(***************************************************************************)
\* init that stores the two addresses in the order given
PairInit_Unsorted(w, p, tokenX, tokenY) ==
    [w EXCEPT !.token0[p] = tokenX, !.token1[p] = tokenY,
              !.reserve0[p] = 0, !.reserve1[p] = 0,
              !.locked[p] = FALSE]

PairInit(w, p, tokenX, tokenY) ==
    LET t0 == IF tokenX < tokenY THEN tokenX ELSE tokenY
        t1 == IF tokenX < tokenY THEN tokenY ELSE tokenX
    IN  [w EXCEPT !.token0[p] = t0, !.token1[p] = t1,
                  !.reserve0[p] = 0, !.reserve1[p] = 0,
                  !.locked[p] = FALSE]

(***************************************************************************)
(* Pair::mint                                                              *)
(***************************************************************************)
\* mint from the deposited amounts on, without the shares locked at the
\* first mint
PairMint_NothingLocked(b, reserve0_, reserve1_, p, to, now_) ==
    LET w2 == b.w
        amount0 == SafeSub(b.val0, reserve0_)
        amount1 == SafeSub(b.val1, reserve1_)
    IN  IF ~amount0.ok THEN Out(w2, amount0)
        ELSE IF ~amount1.ok THEN Out(w2, amount1)
        ELSE
        LET total_supply == w2.lp_total_supply[p]
            liq == CalculateLiquidity(amount0.val, amount1.val,
                                      reserve0_, reserve1_, total_supply)
        IN  IF ~liq.ok THEN Out(w2, liq)
            ELSE IF liq.val = 0
            THEN Out(w2, Err("InsufficientLiquidityMinted"))
            ELSE
            LET w4 == LpMint(w2, p, to, liq.val)
                w5 == UpdateReserves(w4, p, b.val0, b.val1, now_)
                w6 == [w5 EXCEPT !.k_last[p] =
                          w5.reserve0[p] * w5.reserve1[p]]
                w7 == Emit(w6, "LiquidityAdded")
            IN  Out(Unlock(w7, p), Ok(liq.val))

\* mint from the deposited amounts on; b holds the balances just read
PairMint_Deposited(b, reserve0_, reserve1_, p, to, now_) ==
    LET w2 == b.w
        amount0 == SafeSub(b.val0, reserve0_)
        amount1 == SafeSub(b.val1, reserve1_)
    IN  IF ~amount0.ok THEN Out(w2, amount0)
        ELSE IF ~amount1.ok THEN Out(w2, amount1)
        ELSE
        LET total_supply == w2.lp_total_supply[p]
            liq == CalculateLiquidity(amount0.val, amount1.val,
                                      reserve0_, reserve1_, total_supply)
        IN  IF ~liq.ok THEN Out(w2, liq)
            ELSE
            LET w3 == IF total_supply = 0
                      THEN LpMint(w2, p, p, MINIMUM_LIQUIDITY)
                      ELSE w2
            IN  IF liq.val = 0
                THEN Out(w3, Err("InsufficientLiquidityMinted"))
                ELSE
                LET w4 == LpMint(w3, p, to, liq.val)
                    w5 == UpdateReserves(w4, p, b.val0, b.val1, now_)
                    w6 == [w5 EXCEPT !.k_last[p] =
                              w5.reserve0[p] * w5.reserve1[p]]
                    w7 == Emit(w6, "LiquidityAdded")
                IN  Out(Unlock(w7, p), Ok(liq.val))

PairMint(w0, p, to, now_, cb) ==
    LET lk == Lock(w0, p)
    IN  IF ~lk.res.ok THEN lk
        ELSE PairMint_Deposited(Balances(lk.w, p, cb, now_, 1),
                                lk.w.reserve0[p], lk.w.reserve1[p], p, to, now_)

(***************************************************************************)
(* Pair::burn                                                              *)
(***************************************************************************)
\* burn after the two transfers x: the reserves follow the amounts paid
PairBurn_Paid(x, balance0, balance1, amount0, amount1, p, now_) ==
    IF ~x.res.ok THEN x
    ELSE
    LET nb0 == SafeSub(balance0, amount0)
        nb1 == SafeSub(balance1, amount1)
    IN  IF ~nb0.ok THEN Out(x.w, nb0)
        ELSE IF ~nb1.ok THEN Out(x.w, nb1)
        ELSE
        LET w5 == UpdateReserves(x.w, p, nb0.val, nb1.val, now_)
            w6 == Emit(w5, "LiquidityRemoved")
        IN  Out(Unlock(w6, p), Ok(<<amount0, amount1>>))

\* burn from the shares the pool's own address holds on
PairBurn_Shares(b, reserve0_, reserve1_, p, to, now_, cb) ==
    LET w2 == b.w
        liquidity == w2.lp_balances[p][p]
        total_supply == w2.lp_total_supply[p]
        amts == CalculateBurnAmounts(liquidity, reserve0_, reserve1_,
                                     total_supply)
    IN  IF ~amts.ok THEN Out(w2, amts)
        ELSE PairBurn_Paid(SafeTransfers(LpBurn(w2, p, p, liquidity), p, to,
                                         amts.val[1], amts.val[2], TRUE, TRUE,
                                         cb, now_, 3),
                           b.val0, b.val1, amts.val[1], amts.val[2], p, now_)

PairBurn(w0, p, to, now_, cb) ==
    LET lk == Lock(w0, p)
    IN  IF ~lk.res.ok THEN lk
        ELSE PairBurn_Shares(Balances(lk.w, p, cb, now_, 1),
                             lk.w.reserve0[p], lk.w.reserve1[p], p, to, now_, cb)

(***************************************************************************)
(* Pair::swap                                                              *)
(***************************************************************************)
\* the inferred input of one side: the excess of balance over reserve - out
AmountIn(balance, reserve, amount_out) ==
    IF balance > reserve - amount_out
    THEN balance - (reserve - amount_out)
    ELSE 0

\* the invariant test on the raw balances, without the 0.3% fee
KCheck_NoFee(balance0, balance1, amount0_in, amount1_in, reserve0_, reserve1_) ==
    (balance0 * 1000) * (balance1 * 1000) >= reserve0_ * reserve1_ * 1000000

\* the invariant test with a fee of 3% where the formulas take 0.3%
KCheck_HigherFee(balance0, balance1, amount0_in, amount1_in, reserve0_, reserve1_) ==
    (balance0 * 1000 - amount0_in * 30) * (balance1 * 1000 - amount1_in * 30)
        >= reserve0_ * reserve1_ * 1000000

\* the invariant test with the comparison turned round
KCheck_Reversed(balance0, balance1, amount0_in, amount1_in, reserve0_, reserve1_) ==
    (balance0 * 1000 - amount0_in * 3) * (balance1 * 1000 - amount1_in * 3)
        <= reserve0_ * reserve1_ * 1000000

\* k_new >= k_old of pair.rs:282-299
KCheck(balance0, balance1, amount0_in, amount1_in, reserve0_, reserve1_) ==
    (balance0 * 1000 - amount0_in * 3) * (balance1 * 1000 - amount1_in * 3)
        >= reserve0_ * reserve1_ * 1000000

\* swap from the new balances b on
PairSwap_Received(b, reserve0_, reserve1_, amount0_out, amount1_out, p, now_) ==
    LET amount0_in == AmountIn(b.val0, reserve0_, amount0_out)
        amount1_in == AmountIn(b.val1, reserve1_, amount1_out)
    IN  IF amount0_in = 0 /\ amount1_in = 0
        THEN Out(b.w, Err("InsufficientInputAmount"))
        ELSE IF ~KCheck(b.val0, b.val1, amount0_in, amount1_in,
                        reserve0_, reserve1_)
        THEN Out(b.w, Err("KInvariantViolated"))
        ELSE
        LET w3 == UpdateReserves(b.w, p, b.val0, b.val1, now_)
            w4 == Emit(w3, "Swap")
        IN  Out(Unlock(w4, p), Ok(<<>>))

\* swap after the transfers out x
PairSwap_Sent(x, reserve0_, reserve1_, amount0_out, amount1_out, p, now_, cb) ==
    IF ~x.res.ok THEN x
    ELSE PairSwap_Received(Balances(x.w, p, cb, now_, 3), reserve0_, reserve1_,
                           amount0_out, amount1_out, p, now_)

\* swap that tests the recipient only after the transfers out
PairSwap_LateRecipientTest(w0, p, caller, amount0_out, amount1_out, to, now_, cb) ==
    LET lk == Lock(w0, p)
    IN  IF ~lk.res.ok THEN lk
        ELSE IF amount0_out = 0 /\ amount1_out = 0
        THEN Out(lk.w, Err("InsufficientOutputAmount"))
        ELSE
        LET reserve0_ == lk.w.reserve0[p]
            reserve1_ == lk.w.reserve1[p]
            x == SafeTransfers(lk.w, p, to, amount0_out, amount1_out,
                               amount0_out # 0, amount1_out # 0, NoCb, now_, 1)
        IN  IF amount0_out >= reserve0_ \/ amount1_out >= reserve1_
            THEN Out(lk.w, Err("InsufficientLiquidity"))
            ELSE IF ~x.res.ok THEN x
            ELSE IF to = lk.w.token0[p] \/ to = lk.w.token1[p]
            THEN Out(x.w, Err("InvalidPair"))
            ELSE PairSwap_Received(Balances(x.w, p, NoCb, now_, 3),
                                   reserve0_, reserve1_, amount0_out,
                                   amount1_out, p, now_)

PairSwap(w0, p, caller, amount0_out, amount1_out, to, now_, cb) ==
    LET lk == Lock(w0, p)
    IN  IF ~lk.res.ok THEN lk
        ELSE IF amount0_out = 0 /\ amount1_out = 0
        THEN Out(lk.w, Err("InsufficientOutputAmount"))
        ELSE
        LET reserve0_ == lk.w.reserve0[p]
            reserve1_ == lk.w.reserve1[p]
        IN  IF amount0_out >= reserve0_ \/ amount1_out >= reserve1_
            THEN Out(lk.w, Err("InsufficientLiquidity"))
            ELSE IF to = lk.w.token0[p] \/ to = lk.w.token1[p]
            THEN Out(lk.w, Err("InvalidPair"))
            ELSE PairSwap_Sent(SafeTransfers(lk.w, p, to, amount0_out,
                                             amount1_out, amount0_out # 0,
                                             amount1_out # 0, cb, now_, 1),
                               reserve0_, reserve1_, amount0_out, amount1_out,
                               p, now_, cb)

(***************************************************************************)
(* Pair::skim, Pair::sync                                                  *)
(***************************************************************************)
\* skim that sends the whole balances instead of the excess
PairSkim_WholeBalance(b, reserve0_, reserve1_, p, to, now_, cb) ==
    SafeTransfers(b.w, p, to, b.val0, b.val1, b.val0 > reserve0_,
                  b.val1 > reserve1_, cb, now_, 3)

\* skim from the balances b on: what exceeds the reserves goes to `to`
PairSkim_Excess(b, reserve0_, reserve1_, p, to, now_, cb) ==
    SafeTransfers(b.w, p, to, b.val0 - reserve0_, b.val1 - reserve1_,
                  b.val0 > reserve0_, b.val1 > reserve1_, cb, now_, 3)

PairSkim(w0, p, to, now_, cb) ==
    PairSkim_Excess(Balances(w0, p, cb, now_, 1), w0.reserve0[p],
                    w0.reserve1[p], p, to, now_, cb)

\* sync that refuses balances whose product is below that of the reserves
PairSync_KeepsK(b, p, now_) ==
    IF b.val0 * b.val1 < b.w.reserve0[p] * b.w.reserve1[p]
    THEN Out(b.w, Err("KInvariantViolated"))
    ELSE Out(UpdateReserves(b.w, p, b.val0, b.val1, now_), Ok(<<>>))

\* sync from the balances b on
PairSync_Balances(b, p, now_) ==
    Out(UpdateReserves(b.w, p, b.val0, b.val1, now_), Ok(<<>>))

PairSync(w0, p, now_, cb) ==
    PairSync_Balances(Balances(w0, p, cb, now_, 1), p, now_)

\* the entry point a Token Ledger callback invokes on the pool
NestedCall(w, p, token, cb, now_) ==
    CASE cb.op = "mint" -> PairMint(w, p, cb.to, now_, NoCb)
      [] cb.op = "burn" -> PairBurn(w, p, cb.to, now_, NoCb)
      [] cb.op = "swap" -> PairSwap(w, p, token, cb.a0, cb.a1, cb.to, now_, NoCb)
      [] cb.op = "skim" -> PairSkim(w, p, cb.to, now_, NoCb)
      [] cb.op = "sync" -> PairSync(w, p, now_, NoCb)
      [] OTHER -> Out(w, Ok(<<>>))

(***************************************************************************)
(* Pool registry (crate::dex::factory): one pool per unordered token pair. *)
(***************************************************************************)
PairAddr(token_a, token_b) == 100 + 10 * Min2(token_a, token_b) + Max2(token_a, token_b)

FactoryGetPair(w, token_a, token_b) ==
    IF PairAddr(token_a, token_b) \in w.created
    THEN Ok(PairAddr(token_a, token_b))
    ELSE Err("PairNotFound")

FactoryCreatePair(w, token_a, token_b) ==
    IF token_a = token_b THEN Out(w, Err("IdenticalAddresses"))
    ELSE IF PairAddr(token_a, token_b) \in w.created THEN Out(w, Err("PairExists"))
    ELSE LET p == PairAddr(token_a, token_b)
         IN  Out(PairInit([w EXCEPT !.created = @ \cup {p}], p, token_a, token_b),
                 Ok(p))

(***************************************************************************)
(* Router: internal functions                                              *)
(***************************************************************************)
\* the deadline test with >= in place of >
EnsureDeadline_Strict(now_, deadline) ==
    IF now_ >= deadline THEN Err("DeadlineExpired") ELSE Ok(<<>>)

EnsureDeadline(now_, deadline) ==
    IF now_ > deadline THEN Err("DeadlineExpired") ELSE Ok(<<>>)

SortTokens(token_a, token_b) ==
    IF token_a < token_b THEN <<token_a, token_b>> ELSE <<token_b, token_a>>

RouterGetPair(w, token_a, token_b) == FactoryGetPair(w, token_a, token_b)

RouterGetOrCreatePair(w, token_a, token_b) ==
    LET g == FactoryGetPair(w, token_a, token_b)
    IN  IF g.ok THEN Out(w, g) ELSE FactoryCreatePair(w, token_a, token_b)

RouterGetReserves(w, token_a, token_b) ==
    LET token0_ == SortTokens(token_a, token_b)[1]
        pr == RouterGetPair(w, token_a, token_b)
    IN  IF ~pr.ok THEN pr
        ELSE IF token_a = token0_
        THEN Ok(<<w.reserve0[pr.val], w.reserve1[pr.val]>>)
        ELSE Ok(<<w.reserve1[pr.val], w.reserve0[pr.val]>>)

\* transfer_from of the Token Ledger, the Router being the spender; every
\* owner is taken to have approved the Router
RouterSafeTransferFrom(w, token, from, to, amount) ==
    LET t == TokenTransfer(w, token, from, to, amount)
    IN  IF ~t.ok THEN Out(t.w, Err("TransferFailed")) ELSE Out(t.w, Ok(<<>>))

\* calculate_liquidity_amounts that always takes the desired amounts
CalculateLiquidityAmounts_Desired(w, token_a, token_b, amount_a_desired, amount_b_desired, amount_a_min, amount_b_min) ==
    Ok(<<amount_a_desired, amount_b_desired>>)

CalculateLiquidityAmounts(w, token_a, token_b, amount_a_desired, amount_b_desired, amount_a_min, amount_b_min) ==
    LET reserves == RouterGetReserves(w, token_a, token_b)
    IN  IF reserves.ok /\ reserves.val[1] # 0 /\ reserves.val[2] # 0
        THEN LET reserve_a == reserves.val[1]
                 reserve_b == reserves.val[2]
                 amount_b_optimal == Quote(amount_a_desired, reserve_a, reserve_b)
             IN  IF ~amount_b_optimal.ok THEN amount_b_optimal
                 ELSE IF amount_b_optimal.val <= amount_b_desired
                 THEN IF amount_b_optimal.val < amount_b_min
                      THEN Err("InsufficientAmount")
                      ELSE Ok(<<amount_a_desired, amount_b_optimal.val>>)
                 ELSE LET amount_a_optimal ==
                              Quote(amount_b_desired, reserve_b, reserve_a)
                      IN  IF ~amount_a_optimal.ok THEN amount_a_optimal
                          ELSE IF amount_a_optimal.val > amount_a_desired
                          THEN Err("InsufficientAmount")
                          ELSE IF amount_a_optimal.val < amount_a_min
                          THEN Err("InsufficientAmount")
                          ELSE Ok(<<amount_a_optimal.val, amount_b_desired>>)
        ELSE Ok(<<amount_a_desired, amount_b_desired>>)

(***************************************************************************)
(* Router: quoting along a path                                            *)
(***************************************************************************)
RECURSIVE AmountsOutFrom(_, _, _, _)
AmountsOutFrom(w, path, i, amounts) ==
    IF i > Len(path) - 1 THEN Ok(amounts)
    ELSE LET r == RouterGetReserves(w, path[i], path[i + 1])
         IN  IF ~r.ok THEN r
             ELSE LET o == GetAmountOut(amounts[i], r.val[1], r.val[2])
                  IN  IF ~o.ok THEN o
                      ELSE AmountsOutFrom(w, path, i + 1, Append(amounts, o.val))

\* get_amounts_out without the test of the path's length
GetAmountsOut_AnyPath(w, amount_in, path) ==
    AmountsOutFrom(w, path, 1, <<amount_in>>)

GetAmountsOut(w, amount_in, path) ==
    IF Len(path) < 2 THEN Err("InvalidPath")
    ELSE AmountsOutFrom(w, path, 1, <<amount_in>>)

\* AmountsInFrom reading each pool's reserves in the order of the other side
RECURSIVE AmountsInFrom_Swapped(_, _, _, _)
AmountsInFrom_Swapped(w, path, i, amounts) ==
    IF i < 1 THEN Ok(amounts)
    ELSE LET r == RouterGetReserves(w, path[i + 1], path[i])
         IN  IF ~r.ok THEN r
             ELSE LET a == GetAmountIn(amounts[1], r.val[1], r.val[2])
                  IN  IF ~a.ok THEN a
                      ELSE AmountsInFrom_Swapped(w, path, i - 1,
                                                 <<a.val>> \o amounts)

RECURSIVE AmountsInFrom(_, _, _, _)
AmountsInFrom(w, path, i, amounts) ==
    IF i < 1 THEN Ok(amounts)
    ELSE LET r == RouterGetReserves(w, path[i], path[i + 1])
         IN  IF ~r.ok THEN r
             ELSE LET a == GetAmountIn(amounts[1], r.val[1], r.val[2])
                  IN  IF ~a.ok THEN a
                      ELSE AmountsInFrom(w, path, i - 1, <<a.val>> \o amounts)

GetAmountsIn(w, amount_out, path) ==
    IF Len(path) < 2 THEN Err("InvalidPath")
    ELSE AmountsInFrom(w, path, Len(path) - 1, <<amount_out>>)

(***************************************************************************)
(* Router: multi-hop execution                                             *)
(***************************************************************************)
RECURSIVE ExecuteSwapFrom(_, _, _, _, _, _)

\* `pair_ref.swap(..)?` answered sw: the loop goes on with the next hop
ExecuteSwap_Swapped(sw, amounts, path, to, i, now_) ==
    IF ~sw.res.ok THEN sw
    ELSE ExecuteSwapFrom(sw.w, amounts, path, to, i + 1, now_)

\* execute_swap sending every hop's output to `to`
ExecuteSwapFrom_DirectPayout(w, amounts, path, to, i, now_) ==
    IF i > Len(path) - 1 THEN Out(w, Ok(<<>>))
    ELSE LET input == path[i]
             output == path[i + 1]
             token0_ == SortTokens(input, output)[1]
             amount_out == amounts[i + 1]
             amount0_out == IF input = token0_ THEN 0 ELSE amount_out
             amount1_out == IF input = token0_ THEN amount_out ELSE 0
             pr == RouterGetPair(w, input, output)
         IN  IF ~pr.ok THEN Out(w, pr)
             ELSE ExecuteSwap_Swapped(
                      PairSwap(w, pr.val, RouterAddr, amount0_out,
                               amount1_out, to, now_, NoCb),
                      amounts, path, to, i, now_)

ExecuteSwapFrom(w, amounts, path, to, i, now_) ==
    IF i > Len(path) - 1 THEN Out(w, Ok(<<>>))
    ELSE LET input == path[i]
             output == path[i + 1]
             token0_ == SortTokens(input, output)[1]
             amount_out == amounts[i + 1]
             amount0_out == IF input = token0_ THEN 0 ELSE amount_out
             amount1_out == IF input = token0_ THEN amount_out ELSE 0
             recipient == IF i < Len(path) - 1
                          THEN RouterGetPair(w, output, path[i + 2])
                          ELSE Ok(to)
         IN  IF ~recipient.ok THEN Out(w, recipient)
             ELSE LET pr == RouterGetPair(w, input, output)
                  IN  IF ~pr.ok THEN Out(w, pr)
                      ELSE ExecuteSwap_Swapped(
                               PairSwap(w, pr.val, RouterAddr, amount0_out,
                                        amount1_out, recipient.val, now_, NoCb),
                               amounts, path, to, i, now_)

ExecuteSwap(w, amounts, path, to, now_) ==
    ExecuteSwapFrom(w, amounts, path, to, 1, now_)

(***************************************************************************)
(* Router: entry points.  a is the record of the call's arguments.         *)
(***************************************************************************)
\* `pair_ref.mint(to)?` answered m
RouterAddLiquidity_Minted(m, amount_a, amount_b) ==
    IF ~m.res.ok THEN m
    ELSE Out(m.w, Ok(<<amount_a, amount_b, m.res.val>>))

RouterAddLiquidity(w, caller, a, now_) ==
    LET d == EnsureDeadline(now_, a.deadline)
    IN  IF ~d.ok THEN Out(w, d)
        ELSE
        LET amts == CalculateLiquidityAmounts(w, a.token_a, a.token_b,
                        a.amount_a_desired, a.amount_b_desired,
                        a.amount_a_min, a.amount_b_min)
        IN  IF ~amts.ok THEN Out(w, amts)
            ELSE
            LET pc == RouterGetOrCreatePair(w, a.token_a, a.token_b)
            IN  IF ~pc.res.ok THEN pc
                ELSE
                LET pair == pc.res.val
                    ta == RouterSafeTransferFrom(pc.w, a.token_a, caller, pair,
                                                 amts.val[1])
                IN  IF ~ta.res.ok THEN ta
                    ELSE
                    LET tb == RouterSafeTransferFrom(ta.w, a.token_b, caller,
                                                     pair, amts.val[2])
                    IN  IF ~tb.res.ok THEN tb
                        ELSE
                        RouterAddLiquidity_Minted(
                            PairMint(tb.w, pair, a.to, now_, NoCb),
                            amts.val[1], amts.val[2])

\* `pair_ref.burn(to)?` answered b: the amounts against the minimums
RouterRemoveLiquidity_Burned(b, a) ==
    IF ~b.res.ok THEN b
    ELSE
    LET token0_ == SortTokens(a.token_a, a.token_b)[1]
        amount_a == IF a.token_a = token0_
                    THEN b.res.val[1] ELSE b.res.val[2]
        amount_b == IF a.token_a = token0_
                    THEN b.res.val[2] ELSE b.res.val[1]
    IN  IF amount_a < a.amount_a_min
        THEN Out(b.w, Err("InsufficientAmount"))
        ELSE IF amount_b < a.amount_b_min
        THEN Out(b.w, Err("InsufficientAmount"))
        ELSE Out(b.w, Ok(<<amount_a, amount_b>>))

RouterRemoveLiquidity(w, caller, a, now_) ==
    LET d == EnsureDeadline(now_, a.deadline)
    IN  IF ~d.ok THEN Out(w, d)
        ELSE
        LET pr == RouterGetPair(w, a.token_a, a.token_b)
        IN  IF ~pr.ok THEN Out(w, pr)
            ELSE
            \* the boolean transfer_from answers is not looked at
            RouterRemoveLiquidity_Burned(
                PairBurn(LpTransfer(w, pr.val, caller, pr.val, a.liquidity).w,
                         pr.val, a.to, now_, NoCb),
                a)

\* `self.execute_swap(..)?` answered e
RouterSwapWith_Executed(e, amounts) ==
    IF ~e.res.ok THEN e ELSE Out(e.w, Ok(amounts))

\* both swap entry points from the quoted amounts on
RouterSwapWith(w, caller, amounts, path, to, now_) ==
    LET pr == RouterGetPair(w, path[1], path[2])
    IN  IF ~pr.ok THEN Out(w, pr)
        ELSE
        LET t == RouterSafeTransferFrom(w, path[1], caller, pr.val, amounts[1])
        IN  IF ~t.res.ok THEN t
            ELSE
            RouterSwapWith_Executed(ExecuteSwap(t.w, amounts, path, to, now_),
                                    amounts)

\* swap_exact_tokens_for_tokens without the test against amount_out_min
RouterSwapExactTokensForTokens_NoMin(w, caller, a, now_) ==
    LET d == EnsureDeadline(now_, a.deadline)
    IN  IF ~d.ok THEN Out(w, d)
        ELSE
        LET amounts == GetAmountsOut(w, a.amount_in, a.path)
        IN  IF ~amounts.ok THEN Out(w, amounts)
            ELSE RouterSwapWith(w, caller, amounts.val, a.path, a.to, now_)

RouterSwapExactTokensForTokens(w, caller, a, now_) ==
    LET d == EnsureDeadline(now_, a.deadline)
    IN  IF ~d.ok THEN Out(w, d)
        ELSE
        LET amounts == GetAmountsOut(w, a.amount_in, a.path)
        IN  IF ~amounts.ok THEN Out(w, amounts)
            ELSE IF amounts.val[Len(amounts.val)] < a.amount_out_min
            THEN Out(w, Err("InsufficientOutputAmount"))
            ELSE RouterSwapWith(w, caller, amounts.val, a.path, a.to, now_)

\* swap_tokens_for_exact_tokens without the test against amount_in_max
RouterSwapTokensForExactTokens_NoMax(w, caller, a, now_) ==
    LET d == EnsureDeadline(now_, a.deadline)
    IN  IF ~d.ok THEN Out(w, d)
        ELSE
        LET amounts == GetAmountsIn(w, a.amount_out, a.path)
        IN  IF ~amounts.ok THEN Out(w, amounts)
            ELSE RouterSwapWith(w, caller, amounts.val, a.path, a.to, now_)

RouterSwapTokensForExactTokens(w, caller, a, now_) ==
    LET d == EnsureDeadline(now_, a.deadline)
    IN  IF ~d.ok THEN Out(w, d)
        ELSE
        LET amounts == GetAmountsIn(w, a.amount_out, a.path)
        IN  IF ~amounts.ok THEN Out(w, amounts)
            ELSE IF amounts.val[1] > a.amount_in_max
            THEN Out(w, Err("ExcessiveSlippage"))
            ELSE RouterSwapWith(w, caller, amounts.val, a.path, a.to, now_)

(***************************************************************************)
(* Launchpad.  The launchpad contracts revert (`self.env().revert(..)`):   *)
(* a call that reverts leaves the storage it was entered with, which the   *)
(* operators below return together with the error.                         *)
(***************************************************************************)
Carol == 13
CurveAddr == 30
LaunchTokenAddr == 31
TokenFactoryAddr == 32
LaunchAccounts == {Alice, Bob, Carol}
LaunchHolders == LaunchAccounts \cup {CurveAddr}

(***************************************************************************)
(* LaunchToken: a record t of the fields total_supply, balances,           *)
(* allowances, minter and creator                                          *)
(***************************************************************************)
LaunchTokenInit(minter, creator) ==
    [total_supply |-> 0,
     balances |-> [h \in LaunchHolders |-> 0],
     allowances |-> [k \in LaunchHolders \X LaunchHolders |-> 0],
     minter |-> minter,
     creator |-> creator]

LtBalanceOf(t, owner) == t.balances[owner]

LtAllowance(t, owner, spender) == t.allowances[<<owner, spender>>]

LtTransferInternal(t, from, to, amount) ==
    LET from_balance == LtBalanceOf(t, from)
    IN  IF from_balance < amount THEN Out(t, Err("InsufficientBalance"))
        ELSE LET t1 == [t EXCEPT !.balances[from] = from_balance - amount]
                 to_balance == LtBalanceOf(t1, to)
             IN  Out([t1 EXCEPT !.balances[to] = to_balance + amount], Ok(TRUE))

LtApproveInternal(t, owner, spender, amount) ==
    [t EXCEPT !.allowances[<<owner, spender>>] = amount]

LtTransfer(t, caller, to, amount) ==
    LtTransferInternal(t, caller, to, amount)

LtApprove(t, caller, spender, amount) ==
    Out(LtApproveInternal(t, caller, spender, amount), Ok(TRUE))

\* the transfer that follows the new allowance; a revert undoes the allowance
LtTransferFrom_Moved(t, r) ==
    IF r.res.ok THEN r ELSE Out(t, r.res)

LtTransferFrom(t, caller, from, to, amount) ==
    LET current_allowance == LtAllowance(t, from, caller)
    IN  IF current_allowance < amount THEN Out(t, Err("InsufficientBalance"))
        ELSE LtTransferFrom_Moved(t,
                 LtTransferInternal(
                     LtApproveInternal(t, from, caller,
                                       current_allowance - amount),
                     from, to, amount))

\* mint without the test of the caller
LtMint_AnyCaller(t, caller, to, amount) ==
    Out([t EXCEPT !.total_supply = @ + amount,
                  !.balances[to] = @ + amount], Ok(<<>>))

LtMint(t, caller, to, amount) ==
    IF caller # t.minter THEN Out(t, Err("Unauthorized"))
    ELSE Out([t EXCEPT !.total_supply = @ + amount,
                       !.balances[to] = @ + amount], Ok(<<>>))

\* burn leaving the total supply as it was
LtBurn_KeepsSupply(t, caller, from, amount) ==
    IF caller # t.minter THEN Out(t, Err("Unauthorized"))
    ELSE IF LtBalanceOf(t, from) < amount
    THEN Out(t, Err("InsufficientBalance"))
    ELSE Out([t EXCEPT !.balances[from] = @ - amount], Ok(<<>>))

LtBurn(t, caller, from, amount) ==
    IF caller # t.minter THEN Out(t, Err("Unauthorized"))
    ELSE IF LtBalanceOf(t, from) < amount
    THEN Out(t, Err("InsufficientBalance"))
    ELSE Out([t EXCEPT !.balances[from] = @ - amount,
                       !.total_supply = @ - amount], Ok(<<>>))

(***************************************************************************)
(* TokenFactory: a record f of its fields.  A Mapping is a function whose  *)
(* domain is the set of keys written so far; a symbol is its length.       *)
(***************************************************************************)
MapSet(m, k, v) == [x \in DOMAIN m \cup {k} |-> IF x = k THEN v ELSE m[x]]

EmptyMap == [x \in {} |-> 0]

\* 50,000 CSPR, counted in CSPR where the code counts motes
DEFAULT_GRADUATION_THRESHOLD == 50000
DEFAULT_CREATOR_FEE_BPS == 100
DEFAULT_DEADLINE_DAYS == 30

TokenFactoryInit(caller, dex_router, dex_factory) ==
    [admin |-> caller,
     dex_router |-> dex_router,
     dex_factory |-> dex_factory,
     launch_count |-> 0,
     launch_tokens |-> EmptyMap,
     launch_curves |-> EmptyMap,
     launch_creators |-> EmptyMap,
     launch_curve_types |-> EmptyMap,
     launch_statuses |-> EmptyMap,
     launch_created_at |-> EmptyMap,
     default_graduation_threshold |-> DEFAULT_GRADUATION_THRESHOLD,
     default_creator_fee_bps |-> DEFAULT_CREATOR_FEE_BPS,
     default_deadline_days |-> DEFAULT_DEADLINE_DAYS]

\* create_launch writing every launch under the id 0
CreateLaunch_SameId(f, caller, symbol_len, curve_type, now_) ==
    IF symbol_len > 6 THEN Out(f, Err("InvalidCurveType"))
    ELSE IF curve_type > 2 THEN Out(f, Err("InvalidCurveType"))
    ELSE LET current_count == f.launch_count
             new_id == 0
         IN  Out([f EXCEPT
                    !.launch_tokens = MapSet(@, new_id, TokenFactoryAddr),
                    !.launch_curves = MapSet(@, new_id, TokenFactoryAddr),
                    !.launch_creators = MapSet(@, new_id, caller),
                    !.launch_curve_types = MapSet(@, new_id, curve_type),
                    !.launch_statuses = MapSet(@, new_id, 0),
                    !.launch_created_at = MapSet(@, new_id, now_),
                    !.launch_count = current_count + 1],
                 Ok(new_id))

CreateLaunch(f, caller, symbol_len, curve_type, now_) ==
    IF symbol_len > 6 THEN Out(f, Err("InvalidCurveType"))
    ELSE IF curve_type > 2 THEN Out(f, Err("InvalidCurveType"))
    ELSE LET current_count == f.launch_count
             new_id == current_count
         IN  Out([f EXCEPT
                    !.launch_tokens = MapSet(@, new_id, TokenFactoryAddr),
                    !.launch_curves = MapSet(@, new_id, TokenFactoryAddr),
                    !.launch_creators = MapSet(@, new_id, caller),
                    !.launch_curve_types = MapSet(@, new_id, curve_type),
                    !.launch_statuses = MapSet(@, new_id, 0),
                    !.launch_created_at = MapSet(@, new_id, now_),
                    !.launch_count = current_count + 1],
                 Ok(new_id))

SetDefaultGraduationThreshold(f, caller, threshold) ==
    IF caller # f.admin THEN Out(f, Err("Unauthorized"))
    ELSE Out([f EXCEPT !.default_graduation_threshold = threshold], Ok(<<>>))

SetDefaultCreatorFeeBps(f, caller, fee_bps) ==
    IF caller # f.admin THEN Out(f, Err("Unauthorized"))
    ELSE Out([f EXCEPT !.default_creator_fee_bps = fee_bps], Ok(<<>>))

SetDefaultDeadlineDays(f, caller, days) ==
    IF caller # f.admin THEN Out(f, Err("Unauthorized"))
    ELSE Out([f EXCEPT !.default_deadline_days = days], Ok(<<>>))

\* transfer_admin without the test of the caller
TransferAdmin_AnyCaller(f, caller, new_admin) ==
    Out([f EXCEPT !.admin = new_admin], Ok(<<>>))

TransferAdmin(f, caller, new_admin) ==
    IF caller # f.admin THEN Out(f, Err("Unauthorized"))
    ELSE Out([f EXCEPT !.admin = new_admin], Ok(<<>>))

(***************************************************************************)
(* BondingCurve: a record c of its fields and `purse`, the CSPR the        *)
(* contract holds.  w is the record [lt, bc] of the LaunchToken and the    *)
(* BondingCurve, which a call of the curve may both write.  The model      *)
(* counts tokens in whole tokens (10^18 units in the code), the supply cap *)
(* as SUPPLY_CAP tokens and the base price as BASE_PRICE per token.        *)
(***************************************************************************)
CURVE_LINEAR == 0
CURVE_SIGMOID == 1
CURVE_STEEP == 2
STATUS_ACTIVE == 0
STATUS_GRADUATED == 1
STATUS_REFUNDING == 2
ONE_TOKEN == 1
SUPPLY_CAP == 20
BASE_PRICE == 1

BondingCurveInit(token, curve_type, graduation_threshold, deadline, creator, creator_fee_bps) ==
    [token |-> token,
     curve_type |-> curve_type,
     graduation_threshold |-> graduation_threshold,
     deadline |-> deadline,
     creator |-> creator,
     creator_fee_bps |-> creator_fee_bps,
     status |-> STATUS_ACTIVE,
     cspr_raised |-> 0,
     tokens_sold |-> 0,
     contributions |-> [u \in LaunchAccounts |-> 0],
     total_supply_cap |-> SUPPLY_CAP,
     base_price |-> BASE_PRICE,
     purse |-> 0]

\* calculate_price; (progress * progress * 50) / 10000 is written as
\* (progress * progress) \div 200, the same number, to stay within 32 bits
CalculatePrice(c, tokens_sold) ==
    IF c.total_supply_cap = 0 THEN c.base_price
    ELSE LET progress == (tokens_sold * 10000) \div c.total_supply_cap
             multiplier ==
                 CASE c.curve_type = CURVE_LINEAR -> 10000 + progress * 10
                   [] c.curve_type = CURVE_SIGMOID ->
                        10000 + (progress * progress) \div 100
                   [] c.curve_type = CURVE_STEEP ->
                        10000 + (progress * progress) \div 200
                   [] OTHER -> 10000
         IN  (c.base_price * multiplier) \div 10000

GetCurrentPrice(c) == CalculatePrice(c, c.tokens_sold)

GetQuoteBuy(c, cspr_amount) ==
    IF cspr_amount = 0 THEN 0
    ELSE IF GetCurrentPrice(c) = 0 THEN 0
    ELSE (cspr_amount * ONE_TOKEN) \div GetCurrentPrice(c)

GetQuoteSell(c, token_amount) ==
    IF token_amount = 0 THEN 0
    ELSE (token_amount * GetCurrentPrice(c)) \div ONE_TOKEN

\* env.transfer_tokens: the purse pays, and the call reverts when it cannot
PursePays(c, amount) == c.purse >= amount

TriggerGraduation(c) == [c EXCEPT !.status = STATUS_GRADUATED]

\* buy after token.mint answered m: creator fee, then the graduation test
CurveBuy_Minted(w, m, c1, creator_fee) ==
    IF ~m.res.ok THEN Out(w, m.res)
    ELSE IF creator_fee > 0 /\ ~PursePays(c1, creator_fee)
    THEN Out(w, Err("TransferFailed"))
    ELSE LET c2 == [c1 EXCEPT !.purse = @ - creator_fee]
             c3 == IF c2.cspr_raised >= c2.graduation_threshold
                   THEN TriggerGraduation(c2) ELSE c2
         IN  Out([lt |-> m.w, bc |-> c3], Ok(<<>>))

\* buy(min_tokens_out) by caller with cspr_amount attached
CurveBuy(w, caller, cspr_amount, min_tokens_out) ==
    LET c == w.bc
        tokens_out == GetQuoteBuy(c, cspr_amount)
        new_sold == c.tokens_sold + tokens_out
        creator_fee == (cspr_amount * c.creator_fee_bps) \div 10000
        net_amount == cspr_amount - creator_fee
    IN  IF c.status # STATUS_ACTIVE THEN Out(w, Err("NotActive"))
        ELSE IF cspr_amount = 0 THEN Out(w, Err("InsufficientPayment"))
        ELSE IF tokens_out < min_tokens_out THEN Out(w, Err("SlippageExceeded"))
        ELSE IF new_sold > c.total_supply_cap
        THEN Out(w, Err("InsufficientBalance"))
        ELSE CurveBuy_Minted(w,
                 LtMint(w.lt, CurveAddr, caller, tokens_out),
                 [c EXCEPT !.purse = @ + cspr_amount,
                           !.cspr_raised = @ + net_amount,
                           !.tokens_sold = new_sold,
                           !.contributions[caller] = @ + net_amount],
                 creator_fee)

\* sell after token.burn answered b
CurveSell_Burned(w, b, caller, amount, cspr_out) ==
    IF ~b.res.ok THEN Out(w, b.res)
    ELSE LET c == w.bc
             current_contribution == c.contributions[caller]
         IN  IF ~PursePays(c, cspr_out) THEN Out(w, Err("TransferFailed"))
             ELSE Out([lt |-> b.w,
                       bc |-> [c EXCEPT
                                 !.tokens_sold = @ - amount,
                                 !.cspr_raised = @ - cspr_out,
                                 !.contributions[caller] =
                                     IF cspr_out <= current_contribution
                                     THEN current_contribution - cspr_out
                                     ELSE 0,
                                 !.purse = @ - cspr_out]],
                      Ok(<<>>))

CurveSell(w, caller, amount, min_cspr_out) ==
    LET c == w.bc
        cspr_out == GetQuoteSell(c, amount)
    IN  IF c.status # STATUS_ACTIVE THEN Out(w, Err("NotActive"))
        ELSE IF amount = 0 THEN Out(w, Err("ZeroAmount"))
        ELSE IF cspr_out < min_cspr_out THEN Out(w, Err("SlippageExceeded"))
        ELSE IF cspr_out > c.cspr_raised THEN Out(w, Err("InsufficientBalance"))
        ELSE CurveSell_Burned(w, LtBurn(w.lt, CurveAddr, caller, amount),
                              caller, amount, cspr_out)

\* graduate() without the test of the status
CurveGraduate_AnyStatus(w, caller) ==
    LET c == w.bc
    IN  IF c.cspr_raised < c.graduation_threshold
        THEN Out(w, Err("ThresholdNotMet"))
        ELSE Out([w EXCEPT !.bc = TriggerGraduation(c)], Ok(<<>>))

CurveGraduate(w, caller) ==
    LET c == w.bc
    IN  IF c.status # STATUS_ACTIVE THEN Out(w, Err("AlreadyGraduated"))
        ELSE IF c.cspr_raised < c.graduation_threshold
        THEN Out(w, Err("ThresholdNotMet"))
        ELSE Out([w EXCEPT !.bc = TriggerGraduation(c)], Ok(<<>>))

CurveClaimRefund(w, caller, now_) ==
    LET c == w.bc
        contribution == c.contributions[caller]
    IN  IF c.status = STATUS_GRADUATED THEN Out(w, Err("AlreadyGraduated"))
        ELSE IF c.status = STATUS_ACTIVE /\ now_ < c.deadline
        THEN Out(w, Err("DeadlineNotPassed"))
        ELSE IF contribution = 0 THEN Out(w, Err("NoRefundAvailable"))
        ELSE IF ~PursePays(c, contribution) THEN Out(w, Err("TransferFailed"))
        ELSE Out([w EXCEPT !.bc =
                     [c EXCEPT !.status = IF c.status = STATUS_ACTIVE
                                          THEN STATUS_REFUNDING ELSE @,
                               !.contributions[caller] = 0,
                               !.purse = @ - contribution]],
                 Ok(<<>>))

(***************************************************************************)
(* State                                                                   *)
(***************************************************************************)
VARIABLES
    created,               \* registry: addresses of the pools created
    token0, token1,        \* Pair.token0 / token1, per pool
    reserve0, reserve1,    \* Pair.reserve0 / reserve1, per pool
    block_timestamp_last,  \* Pair.block_timestamp_last, per pool
    k_last,                \* Pair.k_last, per pool
    locked,                \* Pair.locked, per pool
    lp_balances,           \* LP-share balances, per pool and holder
    lp_total_supply,       \* LP-share total supply, per pool
    balances,              \* Token Ledger balances, per token and holder
    events,                \* events emitted by the last call
    nested,                \* outcome of the call nested in the last call
    now,                   \* block time
    minted,                \* history: the pools that had a successful mint
    calls,                 \* history: number of top-level calls made
    last,                  \* the last call: its entry point and its result
    launch_token,          \* the LaunchToken's storage
    token_factory,         \* the TokenFactory's storage
    bonding_curve          \* the BondingCurve's storage and its CSPR purse

vars == <<created, token0, token1, reserve0, reserve1, block_timestamp_last,
          k_last, locked, lp_balances, lp_total_supply, balances, events,
          nested, now, minted, calls, last, launch_token, token_factory,
          bonding_curve>>

\* the storage of the DEX contracts and what is observed of their calls
dexVars == <<created, token0, token1, reserve0, reserve1, block_timestamp_last,
             k_last, locked, lp_balances, lp_total_supply, balances, events,
             nested, minted>>

\* the storage of the launchpad contracts
launchVars == <<launch_token, token_factory, bonding_curve>>

\* the tokens Alice holds at the start, per token
InitialBalance == 4

Users == {Alice, Bob}
Tokens == {TokenA, TokenB}
Pools == {PairAddr(TokenA, TokenB)}
Holders == Users \cup Pools
ThePool == PairAddr(TokenA, TokenB)
Amounts == 0 .. MaxAmount
Deadlines == {BlockTime - 1, BlockTime}

World ==
    [created |-> created, token0 |-> token0, token1 |-> token1,
     reserve0 |-> reserve0, reserve1 |-> reserve1,
     block_timestamp_last |-> block_timestamp_last, k_last |-> k_last,
     locked |-> locked, lp_balances |-> lp_balances,
     lp_total_supply |-> lp_total_supply, balances |-> balances,
     events |-> <<>>, nested |-> "NoCall"]

\* the storage a call can write, without the per-call observations
Storage(w) ==
    [created |-> w.created, token0 |-> w.token0, token1 |-> w.token1,
     reserve0 |-> w.reserve0, reserve1 |-> w.reserve1,
     block_timestamp_last |-> w.block_timestamp_last, k_last |-> w.k_last,
     locked |-> w.locked, lp_balances |-> w.lp_balances,
     lp_total_supply |-> w.lp_total_supply, balances |-> w.balances]

Commit(o, call) ==
    /\ calls < MaxCalls
    /\ calls' = calls + 1
    /\ created' = o.w.created
    /\ token0' = o.w.token0
    /\ token1' = o.w.token1
    /\ reserve0' = o.w.reserve0
    /\ reserve1' = o.w.reserve1
    /\ block_timestamp_last' = o.w.block_timestamp_last
    /\ k_last' = o.w.k_last
    /\ locked' = o.w.locked
    /\ lp_balances' = o.w.lp_balances
    /\ lp_total_supply' = o.w.lp_total_supply
    /\ balances' = o.w.balances
    /\ events' = o.w.events
    /\ nested' = o.w.nested
    /\ last' = [op |-> call, res |-> o.res]
    /\ minted' = IF \E i \in 1 .. Len(o.w.events) : o.w.events[i] = "LiquidityAdded"
                 THEN minted \cup {ThePool} ELSE minted
    /\ UNCHANGED <<now, launchVars>>

\* every Pair field after Pair::init, the LP ledger empty, no call made yet
EmptyPools(ps, hs) ==
    /\ reserve0 = [p \in ps |-> 0]
    /\ reserve1 = [p \in ps |-> 0]
    /\ block_timestamp_last = [p \in ps |-> 0]
    /\ k_last = [p \in ps |-> 0]
    /\ locked = [p \in ps |-> FALSE]
    /\ lp_balances = [p \in ps |-> [h \in hs |-> 0]]
    /\ lp_total_supply = [p \in ps |-> 0]
    /\ events = <<>>
    /\ nested = "NoCall"
    /\ minted = {}
    /\ calls = 0
    /\ last = [op |-> "init", res |-> Ok(<<>>)]

\* the launchpad contracts as deployed, with no call made to them
LaunchpadIdle ==
    /\ launch_token = LaunchTokenInit(CurveAddr, Carol)
    /\ token_factory = TokenFactoryInit(Carol, RouterAddr, NoAddress)
    /\ bonding_curve = BondingCurveInit(LaunchTokenAddr, CURVE_LINEAR,
                                        DEFAULT_GRADUATION_THRESHOLD,
                                        BlockTime + DEFAULT_DEADLINE_DAYS,
                                        Carol, DEFAULT_CREATOR_FEE_BPS)

\* the DEX before any pool is created
DexIdle ==
    /\ EmptyPools(Pools, Holders)
    /\ created = {}
    /\ token0 = [p \in Pools |-> NoAddress]
    /\ token1 = [p \in Pools |-> NoAddress]
    /\ now = BlockTime
    /\ balances = [t \in Tokens |->
                     [h \in Holders |-> IF h = Alice THEN InitialBalance ELSE 0]]

Init == DexIdle /\ LaunchpadIdle

(***************************************************************************)
(* Actions: one per entry point.  `last` keeps the entry point's name and  *)
(* what it returned.                                                       *)
(***************************************************************************)
\* Factory.create_pair(x, y), which deploys and initialises the Pair
CreatePair(x, y) ==
    Commit(FactoryCreatePair(World, x, y), "create_pair")

\* a user sends tokens of his own to the pool (Token Ledger transfer)
Deposit(token, from, amount) ==
    /\ ThePool \in created
    /\ LET t == TokenTransfer(World, token, from, ThePool, amount)
       IN  /\ t.ok
           /\ Commit(Out(t.w, Ok(<<>>)), "token_transfer")

\* Pair.transfer(to, amount) by `from`: LP shares move
LpTransferCall(from, to, amount) ==
    /\ ThePool \in created
    /\ LET t == LpTransfer(World, ThePool, from, to, amount)
       IN  /\ t.ok
           /\ Commit(Out(t.w, Ok(<<>>)), "lp_transfer")

\* the callbacks a Token Ledger makes into the pool
Callbacks ==
    { [site |-> s, op |-> o, to |-> Bob, a0 |-> 1, a1 |-> 0] :
        s \in {1, 3}, o \in {"mint", "burn", "swap"} }

Mint(to, cb) ==
    /\ ThePool \in created
    /\ Commit(PairMint(World, ThePool, to, now, cb), "mint")

Burn(to, cb) ==
    /\ ThePool \in created
    /\ Commit(PairBurn(World, ThePool, to, now, cb), "burn")

Swap(amount0_out, amount1_out, to, cb) ==
    /\ ThePool \in created
    /\ Commit(PairSwap(World, ThePool, Alice, amount0_out, amount1_out, to,
                       now, cb), "swap")

Skim(to, cb) ==
    /\ ThePool \in created
    /\ Commit(PairSkim(World, ThePool, to, now, cb), "skim")

Sync(cb) ==
    /\ ThePool \in created
    /\ Commit(PairSync(World, ThePool, now, cb), "sync")

AddLiquidity(a) ==
    Commit(RouterAddLiquidity(World, a.caller, a, now), "add_liquidity")

RemoveLiquidity(a) ==
    Commit(RouterRemoveLiquidity(World, a.caller, a, now), "remove_liquidity")

SwapExactTokensForTokens(a) ==
    Commit(RouterSwapExactTokensForTokens(World, a.caller, a, now),
           "swap_exact_tokens_for_tokens")

SwapTokensForExactTokens(a) ==
    Commit(RouterSwapTokensForExactTokens(World, a.caller, a, now),
           "swap_tokens_for_exact_tokens")

(***************************************************************************)
(* The inputs the entry points are called with                             *)
(***************************************************************************)
TokenOrders == {<<TokenA, TokenB>>, <<TokenB, TokenA>>}
Recipients == Holders \cup {TokenA}

AddLiquidityArgs ==
    { [token_a |-> o[1], token_b |-> o[2], amount_a_desired |-> x,
       amount_b_desired |-> y, amount_a_min |-> m, amount_b_min |-> 0,
       to |-> u, deadline |-> d, caller |-> u] :
        o \in TokenOrders, x \in 1 .. MaxAmount, y \in 1 .. MaxAmount,
        m \in {0, MaxAmount}, u \in Users, d \in Deadlines }

RemoveLiquidityArgs ==
    { [token_a |-> o[1], token_b |-> o[2], liquidity |-> l,
       amount_a_min |-> m, amount_b_min |-> 0,
       to |-> u, deadline |-> d, caller |-> u] :
        o \in TokenOrders, l \in Amounts, m \in {0, MaxAmount},
        u \in Users, d \in Deadlines }

SwapExactArgs ==
    { [amount_in |-> x, amount_out_min |-> m, path |-> o, to |-> u,
       deadline |-> d, caller |-> u] :
        x \in Amounts, m \in {0, 1}, o \in TokenOrders, u \in Users,
        d \in Deadlines }

SwapForExactArgs ==
    { [amount_out |-> x, amount_in_max |-> m, path |-> o, to |-> u,
       deadline |-> d, caller |-> u] :
        x \in Amounts, m \in {1, MaxAmount}, o \in TokenOrders, u \in Users,
        d \in Deadlines }

Next ==
    \/ \E x \in Tokens, y \in Tokens : x # y /\ CreatePair(x, y)
    \/ \E t \in Tokens, u \in Users, n \in 1 .. MaxAmount : Deposit(t, u, n)
    \/ \E u \in Users, h \in Holders, n \in 1 .. MaxAmount : LpTransferCall(u, h, n)
    \/ \E to \in Holders : Mint(to, NoCb)
    \/ \E to \in Holders : Burn(to, NoCb)
    \/ \E a0 \in Amounts, a1 \in Amounts, to \in Recipients : Swap(a0, a1, to, NoCb)
    \/ \E to \in Holders : Skim(to, NoCb)
    \/ Sync(NoCb)
    \/ \E a \in AddLiquidityArgs : AddLiquidity(a)
    \/ \E a \in RemoveLiquidityArgs : RemoveLiquidity(a)
    \/ \E a \in SwapExactArgs : SwapExactTokensForTokens(a)
    \/ \E a \in SwapForExactArgs : SwapTokensForExactTokens(a)

Spec == Init /\ [][Next]_vars

(***************************************************************************)
(* The same pool with a Token Ledger that calls back into mint, burn or    *)
(* swap of the pool while the pool is calling it.                          *)
(***************************************************************************)
NextReentrant ==
    \/ Next
    \/ \E cb \in Callbacks : Mint(Alice, cb)
    \/ \E cb \in Callbacks : Burn(Alice, cb)
    \/ \E a0 \in Amounts, a1 \in Amounts, cb \in Callbacks : Swap(a0, a1, Alice, cb)

SpecReentrant == Init /\ [][NextReentrant]_vars

(***************************************************************************)
(* First mint: the pool exists, is empty, and holds a deposit that no mint *)
(* has accounted for yet.  The deposits are drawn from 0 .. MaxDeposit and *)
(* the pair (1000, 4000).                                                  *)
(***************************************************************************)
Deposits ==
    ((0 .. MaxDeposit) \X (0 .. MaxDeposit)) \cup {<<1000, 4000>>}

InitFirstMint ==
    /\ EmptyPools(Pools, Holders)
    /\ LaunchpadIdle
    /\ created = {ThePool}
    /\ token0 = [p \in Pools |-> TokenA]
    /\ token1 = [p \in Pools |-> TokenB]
    /\ now = BlockTime
    /\ \E d \in Deposits :
         balances = [t \in Tokens |-> [h \in Holders |->
                        IF h # ThePool THEN 0
                        ELSE IF t = TokenA THEN d[1] ELSE d[2]]]

NextFirstMint == \E to \in Holders : Mint(to, NoCb)

SpecFirstMint == InitFirstMint /\ [][NextFirstMint]_vars

(***************************************************************************)
(* Quoting: three tokens, the pools A-B and B-C with reserves that stay    *)
(* fixed, and the Router's two path quotes called one after the other.     *)
(***************************************************************************)
PoolAB == PairAddr(TokenA, TokenB)
PoolBC == PairAddr(TokenB, TokenC)
QuotePools == {PoolAB, PoolBC}
QuoteTokens == {TokenA, TokenB, TokenC}
QuoteReserves == (1 .. MaxReserve) \cup {997}
QuoteInputs == (0 .. MaxReserve) \cup {1000}
QuotePaths ==
    { <<TokenA>>, <<TokenA, TokenB>>, <<TokenB, TokenA>>, <<TokenB, TokenC>>,
      <<TokenA, TokenB, TokenC>>, <<TokenC, TokenB, TokenA>> }

InitQuote ==
    /\ EmptyPools(QuotePools, Users \cup QuotePools)
    /\ LaunchpadIdle
    /\ created = QuotePools
    /\ token0 = [p \in QuotePools |-> IF p = PoolAB THEN TokenA ELSE TokenB]
    /\ token1 = [p \in QuotePools |-> IF p = PoolAB THEN TokenB ELSE TokenC]
    /\ now = BlockTime
    /\ balances = [t \in QuoteTokens |-> [h \in Users \cup QuotePools |-> 0]]

\* the reserves of the two pools are set once (deposits followed by sync)
SetReserves(ab0, ab1, bc0, bc1) ==
    /\ last.op = "init"
    /\ reserve0' = [p \in QuotePools |-> IF p = PoolAB THEN ab0 ELSE bc0]
    /\ reserve1' = [p \in QuotePools |-> IF p = PoolAB THEN ab1 ELSE bc1]
    /\ balances' = [t \in QuoteTokens |-> [h \in Users \cup QuotePools |->
                      IF h = PoolAB /\ t = TokenA THEN ab0
                      ELSE IF h = PoolAB /\ t = TokenB THEN ab1
                      ELSE IF h = PoolBC /\ t = TokenB THEN bc0
                      ELSE IF h = PoolBC /\ t = TokenC THEN bc1
                      ELSE 0]]
    /\ last' = [op |-> "sync", res |-> Ok(<<>>)]
    /\ UNCHANGED <<created, token0, token1, block_timestamp_last, k_last, locked,
                   lp_balances, lp_total_supply, events, nested, now, minted,
                   calls, launchVars>>

\* Router.get_amounts_out(amount_in, path), a view
GetAmountsOutCall(amount_in, path) ==
    /\ last.op = "sync"
    /\ last' = [op |-> "get_amounts_out", amount_in |-> amount_in,
                path |-> path, res |-> GetAmountsOut(World, amount_in, path)]
    /\ UNCHANGED <<created, token0, token1, reserve0, reserve1,
                   block_timestamp_last, k_last, locked, lp_balances,
                   lp_total_supply, balances, events, nested, now, minted,
                   calls, launchVars>>

\* Router.get_amounts_in on the last amount the forward quote answered
GetAmountsInCall ==
    /\ last.op = "get_amounts_out"
    /\ last.res.ok
    /\ last' = [op |-> "get_amounts_in", amount_in |-> last.amount_in,
                path |-> last.path, out |-> last.res.val,
                res |-> GetAmountsIn(World, last.res.val[Len(last.res.val)],
                                     last.path)]
    /\ UNCHANGED <<created, token0, token1, reserve0, reserve1,
                   block_timestamp_last, k_last, locked, lp_balances,
                   lp_total_supply, balances, events, nested, now, minted,
                   calls, launchVars>>

NextQuote ==
    \/ \E ab0 \in QuoteReserves, ab1 \in QuoteReserves,
          bc0 \in QuoteReserves, bc1 \in QuoteReserves :
            SetReserves(ab0, ab1, bc0, bc1)
    \/ \E x \in QuoteInputs, path \in QuotePaths : GetAmountsOutCall(x, path)
    \/ GetAmountsInCall

SpecQuote == InitQuote /\ [][NextQuote]_vars

(***************************************************************************)
(* The pool deployed directly, as test_pair_init does: Pair::init is the    *)
(* constructor and takes any two addresses, in any order, identical ones   *)
(* included.  The pool operations follow on the pool so deployed.          *)
(***************************************************************************)
\* Pair::deploy(env, PairInitArgs {token0: x, token1: y, factory})
Deploy(x, y) ==
    /\ ThePool \notin created
    /\ LET w == PairInit(World, ThePool, x, y)
       IN  /\ created' = created \cup {ThePool}
           /\ token0' = w.token0
           /\ token1' = w.token1
           /\ reserve0' = w.reserve0
           /\ reserve1' = w.reserve1
           /\ locked' = w.locked
    /\ last' = [op |-> "deploy", res |-> Ok(<<x, y>>)]
    /\ UNCHANGED <<block_timestamp_last, k_last, lp_balances, lp_total_supply,
                   balances, events, nested, now, minted, calls, launchVars>>

NextDeploy ==
    \/ \E x \in Tokens, y \in Tokens : Deploy(x, y)
    \/ \E t \in Tokens, u \in Users, n \in 1 .. MaxAmount : Deposit(t, u, n)
    \/ \E u \in Users, h \in Holders, n \in 1 .. MaxAmount : LpTransferCall(u, h, n)
    \/ \E to \in Holders : Mint(to, NoCb)
    \/ \E to \in Holders : Burn(to, NoCb)
    \/ \E a0 \in Amounts, a1 \in Amounts, to \in Recipients : Swap(a0, a1, to, NoCb)
    \/ \E to \in Holders : Skim(to, NoCb)
    \/ Sync(NoCb)

SpecDeploy == Init /\ [][NextDeploy]_vars

(***************************************************************************)
(* Multi-hop swaps: three tokens, the pools A-B and B-C with liquidity, and *)
(* the Router's two swap entry points called on paths of one and two pools. *)
(***************************************************************************)
HopHolders == Users \cup QuotePools \cup {RouterAddr}
HopReserves == {HopReserve - 2, HopReserve}

InitHops ==
    /\ EmptyPools(QuotePools, HopHolders)
    /\ LaunchpadIdle
    /\ created = QuotePools
    /\ token0 = [p \in QuotePools |-> IF p = PoolAB THEN TokenA ELSE TokenB]
    /\ token1 = [p \in QuotePools |-> IF p = PoolAB THEN TokenB ELSE TokenC]
    /\ now = BlockTime
    /\ balances = [t \in QuoteTokens |-> [h \in HopHolders |->
                      IF h = Alice THEN InitialBalance ELSE 0]]

\* the two pools receive their liquidity once (deposits followed by sync)
SetHopReserves(ab0, ab1, bc0, bc1) ==
    /\ last.op = "init"
    /\ reserve0' = [p \in QuotePools |-> IF p = PoolAB THEN ab0 ELSE bc0]
    /\ reserve1' = [p \in QuotePools |-> IF p = PoolAB THEN ab1 ELSE bc1]
    /\ balances' = [t \in QuoteTokens |-> [h \in HopHolders |->
                      IF h = PoolAB /\ t = TokenA THEN ab0
                      ELSE IF h = PoolAB /\ t = TokenB THEN ab1
                      ELSE IF h = PoolBC /\ t = TokenB THEN bc0
                      ELSE IF h = PoolBC /\ t = TokenC THEN bc1
                      ELSE balances[t][h]]]
    /\ block_timestamp_last' = [p \in QuotePools |-> now]
    /\ events' = <<"Sync">>
    /\ last' = [op |-> "sync", res |-> Ok(<<>>)]
    /\ UNCHANGED <<created, token0, token1, k_last, locked, lp_balances,
                   lp_total_supply, nested, now, minted, calls, launchVars>>

HopSwapExactArgs ==
    { [amount_in |-> x, amount_out_min |-> 0, path |-> p, to |-> t,
       deadline |-> BlockTime, caller |-> u] :
        x \in Amounts, p \in QuotePaths, t \in Users, u \in Users }

HopSwapForExactArgs ==
    { [amount_out |-> x, amount_in_max |-> InitialBalance, path |-> p,
       to |-> t, deadline |-> BlockTime, caller |-> u] :
        x \in Amounts, p \in QuotePaths, t \in Users, u \in Users }

HopSwapExactTokensForTokens(a) ==
    /\ last.op # "init"
    /\ calls < MaxHopCalls
    /\ SwapExactTokensForTokens(a)

HopSwapTokensForExactTokens(a) ==
    /\ last.op # "init"
    /\ calls < MaxHopCalls
    /\ SwapTokensForExactTokens(a)

NextHops ==
    \/ \E ab0 \in HopReserves, ab1 \in HopReserves,
          bc0 \in HopReserves, bc1 \in HopReserves :
            SetHopReserves(ab0, ab1, bc0, bc1)
    \/ \E a \in HopSwapExactArgs : HopSwapExactTokensForTokens(a)
    \/ \E a \in HopSwapForExactArgs : HopSwapTokensForExactTokens(a)

SpecHops == InitHops /\ [][NextHops]_vars

(***************************************************************************)
(* Quoted swaps: one pool whose balances equal its reserves, with reserves *)
(* drawn from 1 .. MaxQuotedReserve, and the Router's two swap entry       *)
(* points, which deposit and request the amounts the formula layer quotes. *)
(***************************************************************************)
QuotedReserves == 1 .. MaxQuotedReserve

InitQuoted ==
    /\ EmptyPools(Pools, Holders)
    /\ LaunchpadIdle
    /\ created = {ThePool}
    /\ token0 = [p \in Pools |-> TokenA]
    /\ token1 = [p \in Pools |-> TokenB]
    /\ now = BlockTime
    /\ balances = [t \in Tokens |-> [h \in Holders |->
                      IF h = Alice THEN QuotedFunds ELSE 0]]

\* the pool receives its liquidity once (deposits followed by sync)
SetQuotedReserves(r0, r1) ==
    /\ last.op = "init"
    /\ reserve0' = [reserve0 EXCEPT ![ThePool] = r0]
    /\ reserve1' = [reserve1 EXCEPT ![ThePool] = r1]
    /\ balances' = [balances EXCEPT ![TokenA][ThePool] = r0,
                                     ![TokenB][ThePool] = r1]
    /\ block_timestamp_last' = [block_timestamp_last EXCEPT ![ThePool] = now]
    /\ events' = <<"Sync">>
    /\ last' = [op |-> "sync", res |-> Ok(<<>>)]
    /\ UNCHANGED <<created, token0, token1, k_last, locked, lp_balances,
                   lp_total_supply, nested, now, minted, calls, launchVars>>

QuotedSwapExactArgs ==
    { [amount_in |-> x, amount_out_min |-> 0, path |-> o, to |-> Alice,
       deadline |-> BlockTime, caller |-> Alice] :
        x \in QuotedReserves, o \in TokenOrders }

QuotedSwapForExactArgs ==
    { [amount_out |-> x, amount_in_max |-> QuotedFunds, path |-> o,
       to |-> Alice, deadline |-> BlockTime, caller |-> Alice] :
        x \in QuotedReserves, o \in TokenOrders }

QuotedSwapExactTokensForTokens(a) ==
    /\ last.op # "init"
    /\ calls < MaxQuotedCalls
    /\ SwapExactTokensForTokens(a)

QuotedSwapTokensForExactTokens(a) ==
    /\ last.op # "init"
    /\ calls < MaxQuotedCalls
    /\ SwapTokensForExactTokens(a)

NextQuoted ==
    \/ \E r0 \in QuotedReserves, r1 \in QuotedReserves : SetQuotedReserves(r0, r1)
    \/ \E a \in QuotedSwapExactArgs : QuotedSwapExactTokensForTokens(a)
    \/ \E a \in QuotedSwapForExactArgs : QuotedSwapTokensForExactTokens(a)

SpecQuoted == InitQuoted /\ [][NextQuoted]_vars

(***************************************************************************)
(* The LaunchToken on its own, as its tests deploy it: the minter is an    *)
(* account, and every account calls every entry point.                     *)
(***************************************************************************)
InitToken ==
    /\ DexIdle
    /\ \E m \in LaunchAccounts : launch_token = LaunchTokenInit(m, Carol)
    /\ token_factory = TokenFactoryInit(Carol, RouterAddr, NoAddress)
    /\ bonding_curve = BondingCurveInit(LaunchTokenAddr, CURVE_LINEAR,
                                        DEFAULT_GRADUATION_THRESHOLD,
                                        BlockTime + DEFAULT_DEADLINE_DAYS,
                                        Carol, DEFAULT_CREATOR_FEE_BPS)

\* a call of the LaunchToken ends: o.w is its storage, o.res what it answered
TokenCall(o, call) ==
    /\ calls < MaxTokenCalls
    /\ calls' = calls + 1
    /\ launch_token' = o.w
    /\ last' = [op |-> call, res |-> o.res]
    /\ UNCHANGED <<dexVars, now, token_factory, bonding_curve>>

LaunchMint(caller, to, amount) ==
    TokenCall(LtMint(launch_token, caller, to, amount), "lt_mint")

LaunchBurn(caller, from, amount) ==
    TokenCall(LtBurn(launch_token, caller, from, amount), "lt_burn")

LaunchTransfer(caller, to, amount) ==
    TokenCall(LtTransfer(launch_token, caller, to, amount), "lt_transfer")

LaunchApprove(caller, spender, amount) ==
    TokenCall(LtApprove(launch_token, caller, spender, amount), "lt_approve")

LaunchTransferFrom(caller, from, to, amount) ==
    TokenCall(LtTransferFrom(launch_token, caller, from, to, amount),
              "lt_transfer_from")

TokenAmounts == 1 .. MaxTokenAmount

NextToken ==
    \/ \E c \in LaunchAccounts, h \in LaunchAccounts, n \in TokenAmounts :
          LaunchMint(c, h, n)
    \/ \E c \in LaunchAccounts, h \in LaunchAccounts, n \in TokenAmounts :
          LaunchBurn(c, h, n)
    \/ \E c \in LaunchAccounts, h \in LaunchAccounts, n \in TokenAmounts :
          LaunchTransfer(c, h, n)
    \/ \E c \in LaunchAccounts, h \in LaunchAccounts, n \in 0 .. MaxTokenAmount :
          LaunchApprove(c, h, n)
    \/ \E c \in LaunchAccounts, f \in LaunchAccounts, h \in LaunchAccounts,
          n \in TokenAmounts : LaunchTransferFrom(c, f, h, n)

SpecToken == InitToken /\ [][NextToken]_vars

(***************************************************************************)
(* The TokenFactory: every account creates launches and calls the admin    *)
(* functions.                                                              *)
(***************************************************************************)
\* a call of the TokenFactory ends
FactoryCall(o, call) ==
    /\ calls < MaxFactoryCalls
    /\ calls' = calls + 1
    /\ token_factory' = o.w
    /\ last' = [op |-> call, res |-> o.res]
    /\ UNCHANGED <<dexVars, now, launch_token, bonding_curve>>

\* symbols of 4, 6 and 7 characters; curve types 0 .. 3
SymbolLengths == {4, 6, 7}
CurveTypes == 0 .. 3
Settings == 1 .. MaxSetting

FactoryCreateLaunch(caller, symbol_len, curve_type) ==
    FactoryCall(CreateLaunch(token_factory, caller, symbol_len, curve_type, now),
                "create_launch")

FactorySetThreshold(caller, threshold) ==
    FactoryCall(SetDefaultGraduationThreshold(token_factory, caller, threshold),
                "set_default_graduation_threshold")

FactorySetFee(caller, fee_bps) ==
    FactoryCall(SetDefaultCreatorFeeBps(token_factory, caller, fee_bps),
                "set_default_creator_fee_bps")

FactorySetDays(caller, days) ==
    FactoryCall(SetDefaultDeadlineDays(token_factory, caller, days),
                "set_default_deadline_days")

FactoryTransferAdmin(caller, new_admin) ==
    FactoryCall(TransferAdmin(token_factory, caller, new_admin),
                "transfer_admin")

NextFactory ==
    \/ \E c \in LaunchAccounts, l \in SymbolLengths, t \in CurveTypes :
          FactoryCreateLaunch(c, l, t)
    \/ \E c \in LaunchAccounts, v \in Settings : FactorySetThreshold(c, v)
    \/ \E c \in LaunchAccounts, v \in Settings : FactorySetFee(c, v)
    \/ \E c \in LaunchAccounts, v \in Settings : FactorySetDays(c, v)
    \/ \E c \in LaunchAccounts, a \in LaunchAccounts : FactoryTransferAdmin(c, a)

SpecFactory == Init /\ [][NextFactory]_vars

(***************************************************************************)
(* The BondingCurve of one launch and its LaunchToken: every account buys, *)
(* sells, calls graduate() and claim_refund(), holders send tokens to each *)
(* other, and the block time passes the deadline.                          *)
(***************************************************************************)
CurveDeadline == BlockTime + 1
Thresholds == {0, CurveThreshold}
Payments == {0, 1, 2, 4}

InitCurve ==
    /\ DexIdle
    /\ launch_token = LaunchTokenInit(CurveAddr, Carol)
    /\ token_factory = TokenFactoryInit(Carol, RouterAddr, NoAddress)
    /\ \E t \in Thresholds, ct \in {CURVE_LINEAR, CURVE_SIGMOID, CURVE_STEEP} :
          bonding_curve = BondingCurveInit(LaunchTokenAddr, ct, t,
                                           CurveDeadline, Carol, CurveFeeBps)

\* the storage a call of the curve reads and writes
CurveWorld == [lt |-> launch_token, bc |-> bonding_curve]

\* a call of the BondingCurve or of the LaunchToken ends
CurveCall(o, call) ==
    /\ calls < MaxCurveCalls
    /\ calls' = calls + 1
    /\ launch_token' = o.w.lt
    /\ bonding_curve' = o.w.bc
    /\ last' = [op |-> call, res |-> o.res]
    /\ UNCHANGED <<dexVars, now, token_factory>>

Buy(caller, cspr_amount, min_tokens_out) ==
    CurveCall(CurveBuy(CurveWorld, caller, cspr_amount, min_tokens_out), "buy")

Sell(caller, amount, min_cspr_out) ==
    CurveCall(CurveSell(CurveWorld, caller, amount, min_cspr_out), "sell")

Graduate(caller) ==
    CurveCall(CurveGraduate(CurveWorld, caller), "graduate")

ClaimRefund(caller) ==
    CurveCall(CurveClaimRefund(CurveWorld, caller, now), "claim_refund")

\* a holder sends LaunchTokens to another account
HolderTransfer_Done(t) == Out([lt |-> t.w, bc |-> bonding_curve], t.res)

HolderTransfer(caller, to, amount) ==
    CurveCall(HolderTransfer_Done(LtTransfer(launch_token, caller, to, amount)),
              "lt_transfer")

\* the block time advances
Tick ==
    /\ now <= CurveDeadline
    /\ now' = now + 1
    /\ UNCHANGED <<dexVars, calls, last, launchVars>>

NextCurve ==
    \/ \E c \in LaunchAccounts, v \in Payments, m \in {0, 3} : Buy(c, v, m)
    \/ \E c \in LaunchAccounts, n \in 0 .. 2, m \in {0, 3} : Sell(c, n, m)
    \/ \E c \in LaunchAccounts : Graduate(c)
    \/ \E c \in LaunchAccounts : ClaimRefund(c)
    \/ \E c \in LaunchAccounts, h \in LaunchAccounts, n \in 1 .. 2 :
          HolderTransfer(c, h, n)
    \/ Tick

SpecCurve == InitCurve /\ [][NextCurve]_vars

(***************************************************************************)
(* Properties                                                              *)
(***************************************************************************)
PairOps == {"mint", "burn", "swap"}
RouterSwapOps == {"swap_exact_tokens_for_tokens", "swap_tokens_for_exact_tokens"}
RouterOps == {"add_liquidity", "remove_liquidity"} \cup RouterSwapOps

\* the persistent storage of the contracts
StorageVars ==
    <<created, token0, token1, reserve0, reserve1, block_timestamp_last,
      k_last, locked, lp_balances, lp_total_supply, balances>>

\* C1: a swap that succeeds (called on the pool directly or by the Router)
\* never decreases the product of the recorded reserves.
C1_SwapKeepsK ==
    [][(last'.op \in {"swap"} \cup RouterSwapOps /\ last'.res.ok)
          => reserve0'[ThePool] * reserve1'[ThePool]
                >= reserve0[ThePool] * reserve1[ThePool]]_vars

\* a swap has succeeded on a pool with liquidity
C1_Witness ==
    /\ last.op = "swap"
    /\ last.res.ok
    /\ events = <<"Sync", "Swap">>
    /\ reserve0[ThePool] * reserve1[ThePool] > 0

\* C2: once a mint has succeeded, the pool's own address holds at least
\* MINIMUM_LIQUIDITY LP shares in every later state.
C2_MinimumLiquidityLocked ==
    ThePool \in minted => lp_balances[ThePool][ThePool] >= MINIMUM_LIQUIDITY

\* C3: once a mint has succeeded, the LP-share total supply is positive in
\* every later state.
C3_SupplyPositive ==
    ThePool \in minted => lp_total_supply[ThePool] > 0

\* C4: when a mint, burn or swap has returned, with a value or with an error,
\* the lock is released, and no such call is ever answered Locked.
C4_LockReleased ==
    last.op \in PairOps => (~locked[ThePool] /\ last.res.err # "Locked")

\* C5: in every reachable state and for every callback of the Token Ledger
\* into mint, burn or swap, the nested call is answered Locked (when the
\* outer call gets as far as the ledger call), and the outer call returns the
\* same result and the same final world as it does without the callback.
C5_ReentryRejected ==
    ThePool \in created =>
        \A cb \in Callbacks :
            /\ LET o == PairMint(World, ThePool, Alice, now, cb)
               IN  /\ o.w.nested \in {"NoCall", "Locked"}
                   /\ [o EXCEPT !.w.nested = "NoCall"]
                        = PairMint(World, ThePool, Alice, now, NoCb)
            /\ LET o == PairBurn(World, ThePool, Alice, now, cb)
               IN  /\ o.w.nested \in {"NoCall", "Locked"}
                   /\ [o EXCEPT !.w.nested = "NoCall"]
                        = PairBurn(World, ThePool, Alice, now, NoCb)
            /\ \A a0 \in Amounts, a1 \in Amounts :
                 LET o == PairSwap(World, ThePool, Alice, a0, a1, Alice, now, cb)
                 IN  /\ o.w.nested \in {"NoCall", "Locked"}
                     /\ [o EXCEPT !.w.nested = "NoCall"]
                          = PairSwap(World, ThePool, Alice, a0, a1, Alice, now,
                                     NoCb)

\* a swap whose transfer called back into the pool has succeeded
C5_Witness ==
    /\ last.op = "swap"
    /\ last.res.ok
    /\ nested = "Locked"

\* C6: a mint, burn or swap that returns an error leaves the persistent
\* storage as it was before the call.
C6_ErrorLeavesState ==
    [][(last'.op \in PairOps /\ ~last'.res.ok) => UNCHANGED StorageVars]_vars

\* C7: in every reachable state each mutating Router operation returns
\* DeadlineExpired exactly when the block time is greater than the deadline,
\* and then returns the world untouched.
C7_DeadlineFirst ==
    /\ \A a \in AddLiquidityArgs :
         LET o == RouterAddLiquidity(World, a.caller, a, now)
         IN  /\ (o.res.err = "DeadlineExpired") = (now > a.deadline)
             /\ now > a.deadline => o.w = World
    /\ \A a \in RemoveLiquidityArgs :
         LET o == RouterRemoveLiquidity(World, a.caller, a, now)
         IN  /\ (o.res.err = "DeadlineExpired") = (now > a.deadline)
             /\ now > a.deadline => o.w = World
    /\ \A a \in SwapExactArgs :
         LET o == RouterSwapExactTokensForTokens(World, a.caller, a, now)
         IN  /\ (o.res.err = "DeadlineExpired") = (now > a.deadline)
             /\ now > a.deadline => o.w = World
    /\ \A a \in SwapForExactArgs :
         LET o == RouterSwapTokensForExactTokens(World, a.caller, a, now)
         IN  /\ (o.res.err = "DeadlineExpired") = (now > a.deadline)
             /\ now > a.deadline => o.w = World

\* a Router call on a pool with liquidity was answered DeadlineExpired
C7_Witness ==
    /\ last.op \in RouterOps
    /\ last.res.err = "DeadlineExpired"
    /\ events = <<>>
    /\ reserve0[ThePool] > 0
    /\ reserve1[ThePool] > 0

\* the remove_liquidity call that gives back the shares add_liquidity minted
RemoveOf(a, liquidity) ==
    [token_a |-> a.token_a, token_b |-> a.token_b, liquidity |-> liquidity,
     amount_a_min |-> 0, amount_b_min |-> 0, to |-> a.caller,
     deadline |-> a.deadline, caller |-> a.caller]

\* C8: in every reachable state, add_liquidity followed at once by
\* remove_liquidity of the shares it minted returns at most the amounts
\* deposited.
C8_RoundTrip ==
    \A a \in AddLiquidityArgs :
        LET add == RouterAddLiquidity(World, a.caller, a, now)
        IN  add.res.ok =>
            LET rem == RouterRemoveLiquidity(add.w, a.caller,
                                             RemoveOf(a, add.res.val[3]), now)
            IN  rem.res.ok => /\ rem.res.val[1] <= add.res.val[1]
                              /\ rem.res.val[2] <= add.res.val[2]

\* C9: when get_amounts_out(x, path) and get_amounts_in of its last amount
\* both succeed, the input quoted back is at most x.
C9_QuoteRoundTrip ==
    (last.op = "get_amounts_in" /\ last.res.ok)
        => last.res.val[1] <= last.amount_in

\* C9, amended: on a path of one pool the input quoted back is at most x + 1.
C9_QuoteRoundTripOneHop ==
    (last.op = "get_amounts_in" /\ last.res.ok /\ Len(last.path) = 2)
        => last.res.val[1] <= last.amount_in + 1

\* a one-pool round trip of a non-zero input that was quoted back as x + 1
C9_Witness ==
    /\ last.op = "get_amounts_in"
    /\ last.res.ok
    /\ Len(last.path) = 2
    /\ last.amount_in > 0
    /\ last.out[2] > 0
    /\ last.res.val[1] = last.amount_in + 1

\* C10: in every state where the pool has no LP shares, a mint to `to` that
\* succeeds on the deposit (amount0, amount1) returns
\* floor(sqrt(amount0 * amount1)) - MINIMUM_LIQUIDITY, credits that to `to`
\* and MINIMUM_LIQUIDITY to the pool's own address, and makes the total
\* supply floor(sqrt(amount0 * amount1)).
C10_FirstMint ==
    \A to \in Holders :
        LET o == PairMint(World, ThePool, to, now, NoCb)
            amount0 == balances[TokenA][ThePool] - reserve0[ThePool]
            amount1 == balances[TokenB][ThePool] - reserve1[ThePool]
            root == o.w.lp_total_supply[ThePool]
        IN  (o.res.ok /\ lp_total_supply[ThePool] = 0) =>
                /\ root * root <= amount0 * amount1
                /\ (root + 1) * (root + 1) > amount0 * amount1
                /\ o.res.val = root - MINIMUM_LIQUIDITY
                /\ o.w.lp_balances[ThePool] =
                       [[lp_balances[ThePool] EXCEPT
                            ![ThePool] = @ + MINIMUM_LIQUIDITY] EXCEPT
                            ![to] = @ + root - MINIMUM_LIQUIDITY]

\* the deposit 1000 and 4000 was minted to Alice: total supply 2000
C10_Witness ==
    /\ last.op = "mint"
    /\ last.res.ok
    /\ balances[TokenA][ThePool] = 1000
    /\ balances[TokenB][ThePool] = 4000
    /\ lp_total_supply[ThePool] = 2000
    /\ lp_balances[ThePool][ThePool] = MINIMUM_LIQUIDITY
    /\ lp_balances[ThePool][Alice] = 2000 - MINIMUM_LIQUIDITY

\* the recipients a swap is tried with: the holders and the two assets
SwapRecipients == Holders \cup Tokens

\* the pool's balance of an asset once it has sent amount_out of it to `to`
BalanceAfterSend(token, amount_out, to) ==
    IF to = ThePool THEN balances[token][ThePool]
    ELSE balances[token][ThePool] - amount_out

\* C11: in every reachable state, a swap that gets past the lock, the output
\* and recipient tests, the transfers out and the zero-input test succeeds
\* exactly when (balance0*1000 - 3*amount0_in) * (balance1*1000 - 3*amount1_in)
\* >= reserve0 * reserve1 * 1000000 for the balances after the transfers out;
\* otherwise it returns KInvariantViolated and records no new reserves.
C11_KTestDecides ==
    ThePool \in created =>
      \A a0 \in Amounts, a1 \in Amounts, to \in SwapRecipients :
        LET o == PairSwap(World, ThePool, Alice, a0, a1, to, now, NoCb)
            r0 == reserve0[ThePool]
            r1 == reserve1[ThePool]
            b0 == BalanceAfterSend(TokenA, a0, to)
            b1 == BalanceAfterSend(TokenB, a1, to)
            in0 == Max2(b0 - (r0 - a0), 0)
            in1 == Max2(b1 - (r1 - a1), 0)
        IN  o.res.err \notin {"Locked", "InsufficientOutputAmount",
                              "InsufficientLiquidity", "InvalidPair",
                              "TransferFailed", "InsufficientInputAmount"}
            => /\ o.res.ok = ((b0 * 1000 - 3 * in0) * (b1 * 1000 - 3 * in1)
                                >= r0 * r1 * 1000000)
               /\ ~o.res.ok => /\ o.res.err = "KInvariantViolated"
                               /\ o.w.reserve0 = reserve0
                               /\ o.w.reserve1 = reserve1

\* a swap was paid for, but not enough: it returned KInvariantViolated
C11_Witness ==
    /\ last.op = "swap"
    /\ last.res.err = "KInvariantViolated"
    /\ reserve0[ThePool] * reserve1[ThePool] > 0

\* C12: in every reachable state, a swap that gets the lock returns
\* InsufficientOutputAmount when both outputs are zero, else
\* InsufficientLiquidity when an output reaches its reserve, else InvalidPair
\* when `to` is token0 or token1, each time with every token balance
\* untouched; a swap that succeeds did none of the three.
C12_SwapRejections ==
    (ThePool \in created /\ ~locked[ThePool]) =>
      \A a0 \in Amounts, a1 \in Amounts, to \in SwapRecipients :
        LET o == PairSwap(World, ThePool, Alice, a0, a1, to, now, NoCb)
            expected ==
                IF a0 = 0 /\ a1 = 0 THEN "InsufficientOutputAmount"
                ELSE IF a0 >= reserve0[ThePool] \/ a1 >= reserve1[ThePool]
                THEN "InsufficientLiquidity"
                ELSE IF to \in {token0[ThePool], token1[ThePool]}
                THEN "InvalidPair"
                ELSE "None"
        IN  /\ expected # "None" => /\ o.res.err = expected
                                    /\ o.w.balances = balances
            /\ o.res.ok => expected = "None"
            /\ o.res.err \in {"InsufficientOutputAmount", "InsufficientLiquidity",
                               "InvalidPair"} => o.res.err = expected

\* a swap with an output below the reserve was sent to token0: InvalidPair
C12_Witness ==
    /\ last.op = "swap"
    /\ last.res.err = "InvalidPair"
    /\ reserve0[ThePool] > 1
    /\ reserve1[ThePool] > 1

\* C13: in every reachable state a swap that gets as far as the balances
\* read after the transfers out, with both inferred inputs
\* max(balance_i - (reserve_i - amount_i_out), 0) zero, returns
\* InsufficientInputAmount; and a swap on a pool whose balances equal its
\* recorded reserves (nothing was paid in) takes no token out of the pool.
C13_NoInputNoOutput ==
    ThePool \in created =>
      \A a0 \in Amounts, a1 \in Amounts, to \in SwapRecipients :
        LET o == PairSwap(World, ThePool, Alice, a0, a1, to, now, NoCb)
            r0 == reserve0[ThePool]
            r1 == reserve1[ThePool]
            in0 == Max2(BalanceAfterSend(TokenA, a0, to) - (r0 - a0), 0)
            in1 == Max2(BalanceAfterSend(TokenB, a1, to) - (r1 - a1), 0)
        IN  /\ (/\ o.res.err \notin {"Locked", "InsufficientOutputAmount",
                                      "InsufficientLiquidity", "InvalidPair",
                                      "TransferFailed"}
                /\ in0 = 0
                /\ in1 = 0)
               => o.res.err = "InsufficientInputAmount"
            /\ (/\ balances[TokenA][ThePool] = r0
                /\ balances[TokenB][ThePool] = r1)
               => /\ o.w.balances[TokenA][ThePool] >= balances[TokenA][ThePool]
                  /\ o.w.balances[TokenB][ThePool] >= balances[TokenB][ThePool]

\* the amounts a mint would find deposited: balance minus recorded reserve
Deposited0 == balances[TokenA][ThePool] - reserve0[ThePool]
Deposited1 == balances[TokenB][ThePool] - reserve1[ThePool]

\* the liquidity a mint computes for the deposit is zero
ZeroLiquidity ==
    /\ Deposited0 >= 0
    /\ Deposited1 >= 0
    /\ IF lp_total_supply[ThePool] = 0
       THEN /\ MINIMUM_LIQUIDITY * MINIMUM_LIQUIDITY <= Deposited0 * Deposited1
            /\ Deposited0 * Deposited1
                  < (MINIMUM_LIQUIDITY + 1) * (MINIMUM_LIQUIDITY + 1)
       ELSE /\ reserve0[ThePool] > 0
            /\ reserve1[ThePool] > 0
            /\ Min2((Deposited0 * lp_total_supply[ThePool]) \div reserve0[ThePool],
                    (Deposited1 * lp_total_supply[ThePool]) \div reserve1[ThePool])
                 = 0

\* C14: in every reachable unlocked state and for every recipient, a mint
\* whose computed liquidity is zero returns InsufficientLiquidityMinted; a
\* mint that returns InsufficientLiquidityMinted has credited no LP share and
\* left the reserves as they were; a mint that succeeds has raised the LP
\* balance of `to`.
C14_ZeroLiquidityMint ==
    (ThePool \in created /\ ~locked[ThePool]) =>
      \A to \in Holders :
        LET o == PairMint(World, ThePool, to, now, NoCb)
        IN  /\ ZeroLiquidity => o.res.err = "InsufficientLiquidityMinted"
            /\ o.res.err = "InsufficientLiquidityMinted"
                 => /\ o.w.lp_balances = lp_balances
                    /\ o.w.lp_total_supply = lp_total_supply
                    /\ o.w.reserve0 = reserve0
                    /\ o.w.reserve1 = reserve1
            /\ o.res.ok => o.w.lp_balances[ThePool][to] > lp_balances[ThePool][to]

\* the LP shares sent to the pool for a withdrawal: what its own address
\* holds above the shares locked at the first mint
SharesSent == lp_balances[ThePool][ThePool] - MINIMUM_LIQUIDITY

\* C15: in every reachable state after the first mint in which the pool
\* holds its locked shares, a burn that succeeds burns exactly the shares
\* sent to the pool and returns floor(liquidity * reserve_i / total_supply)
\* of each token, reserves and total supply taken before the burn.
C15_BurnProRata ==
    (ThePool \in minted /\ SharesSent >= 0) =>
      \A to \in Holders :
        LET o == PairBurn(World, ThePool, to, now, NoCb)
            total_supply == lp_total_supply[ThePool]
        IN  o.res.ok =>
              /\ o.w.lp_total_supply[ThePool] = total_supply - SharesSent
              /\ o.w.lp_balances[ThePool][ThePool] = MINIMUM_LIQUIDITY
              /\ o.res.val =
                    <<(SharesSent * reserve0[ThePool]) \div total_supply,
                      (SharesSent * reserve1[ThePool]) \div total_supply>>

\* the entry points that record reserves
ReserveOps == {"mint", "burn", "swap", "sync"}

\* C16: when a mint, burn, swap or sync has succeeded, the recorded reserves
\* are the pool's balances of token0 and token1 in the Token Ledger.
C16_ReservesAreBalances ==
    (last.op \in ReserveOps /\ last.res.ok) =>
        /\ reserve0[ThePool] = balances[TokenA][ThePool]
        /\ reserve1[ThePool] = balances[TokenB][ThePool]

\* C17: a mint or burn that succeeds leaves k_last equal to the product of
\* the reserves it recorded; swap, skim and sync leave k_last as it was.
C17_KLastRecorded ==
    [][/\ (last'.op \in {"mint", "burn"} /\ last'.res.ok)
          => k_last'[ThePool] = reserve0'[ThePool] * reserve1'[ThePool]
       /\ last'.op \in {"swap", "skim", "sync"} => k_last' = k_last]_vars

\* the state-mutating entry points of the pool
PoolOps == PairOps \cup {"skim", "sync"}

\* how many of the emitted events are e
EventCount(e) == Cardinality({i \in 1 .. Len(events) : events[i] = e})

PairFields(w) ==
    [reserve0 |-> w.reserve0, reserve1 |-> w.reserve1,
     block_timestamp_last |-> w.block_timestamp_last, k_last |-> w.k_last,
     locked |-> w.locked, lp_balances |-> w.lp_balances,
     lp_total_supply |-> w.lp_total_supply]

\* the Token Ledger of `token` after the pool has sent `amount` to `to`
LedgerAfterSend(token, to, amount) ==
    [h \in Holders |->
        balances[token][h]
          + (IF h = to THEN amount ELSE 0)
          - (IF h = ThePool THEN amount ELSE 0)]

InitArgs == {TokenA, TokenB, TokenC}

\* C21: for every two different addresses x and y, init(x, y) and init(y, x)
\* leave the same pool, with token0 the smaller of the two, token1 the
\* other and reserves (0, 0), and sort_tokens(x, y) = sort_tokens(y, x) =
\* (token0, token1); a pool just deployed holds its two constructor
\* arguments in that order.
C21_CanonicalOrder ==
    /\ \A x \in InitArgs, y \in InitArgs :
         x # y =>
           LET w1 == PairInit(World, ThePool, x, y)
               w2 == PairInit(World, ThePool, y, x)
           IN  /\ w1 = w2
               /\ {w1.token0[ThePool], w1.token1[ThePool]} = {x, y}
               /\ w1.token0[ThePool] < w1.token1[ThePool]
               /\ w1.reserve0[ThePool] = 0
               /\ w1.reserve1[ThePool] = 0
               /\ SortTokens(x, y) = SortTokens(y, x)
               /\ SortTokens(x, y) = <<w1.token0[ThePool], w1.token1[ThePool]>>
    /\ last.op = "deploy" =>
         /\ {token0[ThePool], token1[ThePool]} = {last.res.val[1], last.res.val[2]}
         /\ token0[ThePool] <= token1[ThePool]
         /\ reserve0[ThePool] = 0
         /\ reserve1[ThePool] = 0

\* the pool was deployed with the larger address first and holds the
\* smaller one as token0
C21_Witness ==
    /\ last.op = "deploy"
    /\ last.res.val = <<TokenB, TokenA>>
    /\ token0[ThePool] = TokenA
    /\ token1[ThePool] = TokenB

\* C22: an initialised pool has token0 < token1, whatever the constructor
\* arguments were, and no step changes token0 or token1 of an initialised
\* pool.
C22_TokensDistinctFixed ==
    [][/\ ThePool \in created' => token0'[ThePool] < token1'[ThePool]
       /\ ThePool \in created => (token0' = token0 /\ token1' = token1)]_vars

\* the add_liquidity calls tried: in time, with either minimum zero or large
LiquidityTries ==
    { [a EXCEPT !.amount_b_min = m] :
        a \in {x \in AddLiquidityArgs : x.deadline = BlockTime},
        m \in {0, MaxAmount} }

\* the pool's reserves in the caller's order (reserve of token_a, of token_b)
ReserveOf(token) ==
    IF token = token0[ThePool] THEN reserve0[ThePool] ELSE reserve1[ThePool]

\* C23: in every reachable state where the pool has both reserves non-zero,
\* an add_liquidity that succeeds deposited amount_a >= amount_a_min and
\* amount_b >= amount_b_min, and one that returns InsufficientAmount has
\* changed nothing.
C23_MinimumsRespected ==
    (/\ ThePool \in created
     /\ reserve0[ThePool] > 0
     /\ reserve1[ThePool] > 0) =>
      \A a \in LiquidityTries :
        LET o == RouterAddLiquidity(World, a.caller, a, now)
        IN  /\ o.res.ok => /\ o.res.val[1] >= a.amount_a_min
                           /\ o.res.val[2] >= a.amount_b_min
            /\ o.res.err = "InsufficientAmount" => o.w = World

\* the deposit add_liquidity is to choose for the call a in the current state
ChosenDeposit(a) ==
    LET reserve_a == ReserveOf(a.token_a)
        reserve_b == ReserveOf(a.token_b)
        b_opt == (a.amount_a_desired * reserve_b) \div reserve_a
        a_opt == (a.amount_b_desired * reserve_a) \div reserve_b
    IN  IF ThePool \notin created \/ reserve_a = 0 \/ reserve_b = 0
        THEN <<a.amount_a_desired, a.amount_b_desired>>
        ELSE IF b_opt <= a.amount_b_desired
        THEN <<a.amount_a_desired, b_opt>>
        ELSE <<a_opt, a.amount_b_desired>>

\* C24: in every reachable state an add_liquidity that succeeds returns and
\* moves from the caller to the pool the deposit (amount_a_desired, b_opt)
\* when b_opt = quote(amount_a_desired, reserve_a, reserve_b) is at most
\* amount_b_desired, else (quote(amount_b_desired, reserve_b, reserve_a),
\* amount_b_desired), and exactly the desired amounts when a reserve is zero
\* or the pool does not exist; neither amount exceeds the desired one.
C24_DepositChosen ==
    \A a \in LiquidityTries :
        LET o == RouterAddLiquidity(World, a.caller, a, now)
            d == ChosenDeposit(a)
        IN  o.res.ok =>
              /\ o.res.val[1] = d[1]
              /\ o.res.val[2] = d[2]
              /\ d[1] <= a.amount_a_desired
              /\ d[2] <= a.amount_b_desired
              /\ o.w.balances[a.token_a][ThePool]
                    = balances[a.token_a][ThePool] + d[1]
              /\ o.w.balances[a.token_b][ThePool]
                    = balances[a.token_b][ThePool] + d[2]
              /\ o.w.balances[a.token_a][a.caller]
                    = balances[a.token_a][a.caller] - d[1]
              /\ o.w.balances[a.token_b][a.caller]
                    = balances[a.token_b][a.caller] - d[2]

\* an add_liquidity has succeeded on a pool that had reserves already
C24_Witness ==
    /\ last.op = "add_liquidity"
    /\ last.res.ok
    /\ lp_total_supply[ThePool] > last.res.val[3] + MINIMUM_LIQUIDITY
    /\ reserve0[ThePool] > last.res.val[1]
    /\ reserve1[ThePool] > last.res.val[2]

\* the remove_liquidity calls tried: in time, with either minimum zero or large
RemoveTries ==
    { [a EXCEPT !.amount_b_min = m] :
        a \in {x \in RemoveLiquidityArgs : x.deadline = BlockTime},
        m \in {0, MaxAmount} }

\* C25: in every reachable state a remove_liquidity that succeeds returns
\* (amount_a, amount_b) in the caller's order, the amounts of token_a and
\* token_b that `to` received, both at least their minimums; one that
\* returns InsufficientAmount leaves the storage as before the call.
C25_RemoveReordered ==
    \A a \in RemoveTries :
        LET o == RouterRemoveLiquidity(World, a.caller, a, now)
        IN  /\ o.res.ok =>
                /\ o.res.val[1] = o.w.balances[a.token_a][a.to]
                                    - balances[a.token_a][a.to]
                /\ o.res.val[2] = o.w.balances[a.token_b][a.to]
                                    - balances[a.token_b][a.to]
                /\ o.res.val[1] >= a.amount_a_min
                /\ o.res.val[2] >= a.amount_b_min
            /\ o.res.err = "InsufficientAmount" => Storage(o.w) = Storage(World)

\* the swap_exact_tokens_for_tokens calls tried: in time, to either user,
\* with a minimum of zero, one or MaxAmount
SwapExactTries ==
    { [a EXCEPT !.to = t, !.amount_out_min = m] :
        a \in {x \in SwapExactArgs : x.deadline = BlockTime},
        t \in Users, m \in {0, 1, MaxAmount} }

\* C26: in every reachable state with the pool created, a
\* swap_exact_tokens_for_tokens whose quoted output is below amount_out_min
\* returns InsufficientOutputAmount and changes nothing; one that succeeds
\* returns amounts with amounts[0] = amount_in, has moved amount_in of
\* path[0] from the caller into the pool, and `to` has received exactly
\* amounts[last] >= amount_out_min of path[last].
C26_SwapExactBounded ==
    ThePool \in created =>
    \A a \in SwapExactTries :
        LET o == RouterSwapExactTokensForTokens(World, a.caller, a, now)
            quoted == GetAmountOut(a.amount_in, ReserveOf(a.path[1]),
                                   ReserveOf(a.path[2]))
            amounts == o.res.val
        IN  /\ (quoted.ok /\ quoted.val < a.amount_out_min) =>
                 (o.res.err = "InsufficientOutputAmount" /\ o.w = World)
            /\ o.res.ok =>
                /\ Len(amounts) = 2
                /\ amounts[1] = a.amount_in
                /\ amounts[2] = quoted.val
                /\ amounts[2] >= a.amount_out_min
                /\ o.w.balances[a.path[1]][a.caller]
                     = balances[a.path[1]][a.caller] - a.amount_in
                /\ o.w.balances[a.path[1]][ThePool]
                     = balances[a.path[1]][ThePool] + a.amount_in
                /\ o.w.balances[a.path[2]][a.to]
                     = balances[a.path[2]][a.to] + amounts[2]
                /\ o.w.balances[a.path[2]][ThePool]
                     = balances[a.path[2]][ThePool] - amounts[2]

\* a swap_exact_tokens_for_tokens has succeeded and paid out
C26_Witness ==
    /\ last.op = "swap_exact_tokens_for_tokens"
    /\ last.res.ok
    /\ last.res.val[1] > 0
    /\ last.res.val[2] > 0

\* the swap_tokens_for_exact_tokens calls tried: in time, to either user
SwapForExactTries ==
    { [a EXCEPT !.to = t] :
        a \in {x \in SwapForExactArgs : x.deadline = BlockTime}, t \in Users }

\* C27: in every reachable state with the pool created, a
\* swap_tokens_for_exact_tokens whose required input exceeds amount_in_max
\* returns ExcessiveSlippage and changes nothing; one that succeeds has
\* taken exactly amounts[0] <= amount_in_max of path[0] from the caller and
\* `to` has received exactly amount_out = amounts[last] of path[last].
C27_SwapForExactBounded ==
    ThePool \in created =>
    \A a \in SwapForExactTries :
        LET o == RouterSwapTokensForExactTokens(World, a.caller, a, now)
            required == GetAmountIn(a.amount_out, ReserveOf(a.path[1]),
                                    ReserveOf(a.path[2]))
            amounts == o.res.val
        IN  /\ (required.ok /\ required.val > a.amount_in_max) =>
                 (o.res.err = "ExcessiveSlippage" /\ o.w = World)
            /\ o.res.ok =>
                /\ Len(amounts) = 2
                /\ amounts[1] = required.val
                /\ amounts[1] <= a.amount_in_max
                /\ amounts[2] = a.amount_out
                /\ o.w.balances[a.path[1]][a.caller]
                     = balances[a.path[1]][a.caller] - amounts[1]
                /\ o.w.balances[a.path[1]][ThePool]
                     = balances[a.path[1]][ThePool] + amounts[1]
                /\ o.w.balances[a.path[2]][a.to]
                     = balances[a.path[2]][a.to] + a.amount_out
                /\ o.w.balances[a.path[2]][ThePool]
                     = balances[a.path[2]][ThePool] - a.amount_out

\* a swap_tokens_for_exact_tokens has succeeded and paid out
C27_Witness ==
    /\ last.op = "swap_tokens_for_exact_tokens"
    /\ last.res.ok
    /\ last.res.val[1] > 0
    /\ last.res.val[2] > 0

\* the reserve the pool of (x, y) records for x
ReserveSide(x, y) ==
    LET p == PairAddr(x, y)
    IN  IF x = token0[p] THEN reserve0[p] ELSE reserve1[p]

\* the paths quoted: those of QuotePaths and the empty one
PathsQuoted == QuotePaths \cup {<<>>}

\* C28: in every reachable state, for every path and amount: get_amounts_out
\* and get_amounts_in return InvalidPath on a path of fewer than two tokens;
\* a result they return has as many entries as the path, starts with
\* amount_in (out) or ends with amount_out (in), and each pair of neighbours
\* obeys get_amount_out (out) or get_amount_in (in) on the reserves of the
\* pool of (path[i], path[i+1]) taken in that order.
C28_PathQuotes ==
    \A x \in QuoteInputs, path \in PathsQuoted :
        LET out == GetAmountsOut(World, x, path)
            in == GetAmountsIn(World, x, path)
            n == Len(path)
        IN  /\ n < 2 => (out.err = "InvalidPath" /\ in.err = "InvalidPath")
            /\ out.ok =>
                /\ n >= 2
                /\ Len(out.val) = n
                /\ out.val[1] = x
                /\ \A i \in 1 .. n - 1 :
                     LET f == GetAmountOut(out.val[i],
                                           ReserveSide(path[i], path[i + 1]),
                                           ReserveSide(path[i + 1], path[i]))
                     IN  f.ok /\ out.val[i + 1] = f.val
            /\ in.ok =>
                /\ n >= 2
                /\ Len(in.val) = n
                /\ in.val[n] = x
                /\ \A i \in 1 .. n - 1 :
                     LET f == GetAmountIn(in.val[i + 1],
                                          ReserveSide(path[i], path[i + 1]),
                                          ReserveSide(path[i + 1], path[i]))
                     IN  f.ok /\ in.val[i] = f.val

\* a path of two pools has been quoted forward with a non-zero last amount
C28_Witness ==
    /\ last.op = "get_amounts_out"
    /\ Len(last.path) = 3
    /\ last.res.ok
    /\ Len(last.res.val) = 3
    /\ last.res.val[3] > 0

\* the pool of the i-th hop of a path
HopPool(path, i) == PairAddr(path[i], path[i + 1])

\* the call the claim describes for hop i: swap on the pool of
\* (path[i], path[i+1]) by the Router, amounts[i+1] requested on the side of
\* path[i+1] and zero on the side of path[i], the recipient being the next
\* hop's pool, or `to` on the last hop
HopRequest(w, amounts, path, to, i, now_) ==
    PairSwap(w, HopPool(path, i), RouterAddr,
             IF path[i + 1] = w.token0[HopPool(path, i)]
                THEN amounts[i + 1] ELSE 0,
             IF path[i + 1] = w.token1[HopPool(path, i)]
                THEN amounts[i + 1] ELSE 0,
             IF i < Len(path) - 1 THEN HopPool(path, i + 1) ELSE to,
             now_, NoCb)

\* hop 1 and then, on a path of two pools and if hop 1 succeeded, hop 2
HopsInOrder(w, amounts, path, to, now_) ==
    LET h1 == HopRequest(w, amounts, path, to, 1, now_)
    IN  IF Len(path) = 3 /\ h1.res.ok
        THEN HopRequest(h1.w, amounts, path, to, 2, now_)
        ELSE h1

\* the swaps tried: a non-zero input on a path of one or two pools
HopTries == {a \in HopSwapExactArgs : a.amount_in > 0 /\ Len(a.path) >= 2}

\* C29: in every reachable state, for every swap_exact_tokens_for_tokens the
\* caller can pay for and whose path is quoted: the state the call leaves
\* is the one left by paying amounts[0] into the first pool and then
\* running the hops in path order, hop i being swap on the pool of
\* (path[i], path[i+1]) for amounts[i+1] of path[i+1] and nothing of
\* path[i], sent to the next pool or, on the last hop, to `to`; the call
\* succeeds exactly when those hops do; on success each pool has paid out
\* its hop's amount to the next pool and `to` has received amounts[last];
\* and the Router holds no token, before or after.
C29_HopsInPathOrder ==
    /\ \A t \in QuoteTokens : balances[t][RouterAddr] = 0
    /\ \A a \in HopTries :
        LET q == GetAmountsOut(World, a.amount_in, a.path)
            o == RouterSwapExactTokensForTokens(World, a.caller, a, now)
            n == Len(a.path)
            paid == TokenTransfer(World, a.path[1], a.caller,
                                  HopPool(a.path, 1), a.amount_in)
            h == HopsInOrder(paid.w, q.val, a.path, a.to, now)
        IN  (q.ok /\ paid.ok) =>
                /\ o.w = h.w
                /\ o.res.ok <=> h.res.ok
                /\ \A t \in QuoteTokens : o.w.balances[t][RouterAddr] = 0
                /\ o.res.ok =>
                    /\ o.res.val = q.val
                    /\ o.w.balances[a.path[1]][HopPool(a.path, 1)]
                         = balances[a.path[1]][HopPool(a.path, 1)] + q.val[1]
                    /\ o.w.balances[a.path[2]][HopPool(a.path, 1)]
                         = balances[a.path[2]][HopPool(a.path, 1)] - q.val[2]
                    /\ o.w.balances[a.path[n]][a.to]
                         = balances[a.path[n]][a.to] + q.val[n]
                    /\ n = 3 =>
                        /\ o.w.balances[a.path[2]][HopPool(a.path, 2)]
                             = balances[a.path[2]][HopPool(a.path, 2)] + q.val[2]
                        /\ o.w.balances[a.path[3]][HopPool(a.path, 2)]
                             = balances[a.path[3]][HopPool(a.path, 2)] - q.val[3]
                        /\ o.w.events = <<"Sync", "Swap", "Sync", "Swap">>

\* a swap through two pools has succeeded and paid out
C29_Witness ==
    /\ last.op = "swap_exact_tokens_for_tokens"
    /\ last.res.ok
    /\ Len(last.res.val) = 3
    /\ last.res.val[3] > 0
    /\ events = <<"Sync", "Swap", "Sync", "Swap">>

\* C30: a Router call that returns an error leaves every pool's reserves,
\* every token balance and every LP balance as they were before the call.
C30_RouterCallAtomic ==
    [][(last'.op \in RouterOps /\ ~last'.res.ok)
          => UNCHANGED <<reserve0, reserve1, balances, lp_balances>>]_vars

\* C31: in every reachable state where the pool's balances equal its non-zero
\* reserves and the pool is not locked: depositing amount_in and requesting
\* a non-zero get_amount_out(amount_in, r_in, r_out), and depositing
\* get_amount_in(amount_out, r_in, r_out) and requesting amount_out
\* (0 < amount_out < r_out), both make Pair.swap succeed; neither fails
\* with KInvariantViolated.
C31_QuotesAccepted ==
    (/\ reserve0[ThePool] > 0 /\ reserve1[ThePool] > 0
     /\ balances[TokenA][ThePool] = reserve0[ThePool]
     /\ balances[TokenB][ThePool] = reserve1[ThePool]
     /\ ~locked[ThePool]) =>
    /\ \A a \in QuotedSwapExactArgs :
         LET r_in == ReserveOf(a.path[1])
             r_out == ReserveOf(a.path[2])
             out == GetAmountOut(a.amount_in, r_in, r_out)
             o == RouterSwapExactTokensForTokens(World, a.caller, a, now)
         IN  /\ o.res.err # "KInvariantViolated"
             /\ (out.ok /\ out.val > 0
                   /\ balances[a.path[1]][a.caller] >= a.amount_in) =>
                     /\ o.res.ok
                     /\ o.w.reserve0[ThePool] * o.w.reserve1[ThePool]
                          >= reserve0[ThePool] * reserve1[ThePool]
    /\ \A a \in QuotedSwapForExactArgs :
         LET r_in == ReserveOf(a.path[1])
             r_out == ReserveOf(a.path[2])
             in == GetAmountIn(a.amount_out, r_in, r_out)
             o == RouterSwapTokensForExactTokens(World, a.caller, a, now)
         IN  /\ o.res.err # "KInvariantViolated"
             /\ (a.amount_out < r_out /\ in.ok
                   /\ in.val <= a.amount_in_max
                   /\ balances[a.path[1]][a.caller] >= in.val) =>
                     /\ o.res.ok
                     /\ o.w.reserve0[ThePool] * o.w.reserve1[ThePool]
                          >= reserve0[ThePool] * reserve1[ThePool]

\* a swap for an exact output of more than one token has succeeded on a
\* pool with a reserve of MaxQuotedReserve
C31_Witness ==
    /\ last.op = "swap_tokens_for_exact_tokens"
    /\ last.res.ok
    /\ last.res.val[2] > 1
    /\ last.res.val[1] > last.res.val[2]
    /\ (reserve0[ThePool] = MaxQuotedReserve + last.res.val[1]
          \/ reserve1[ThePool] = MaxQuotedReserve + last.res.val[1])

\* the amounts and reserves the formula is evaluated on
FormulaInputs == (0 .. MaxReserve) \cup {100, 997, 1000}

\* C32: for all positive amount_in, reserve_in and reserve_out,
\* get_amount_out is the floor of
\* amount_in * 997 * reserve_out / (reserve_in * 1000 + amount_in * 997);
\* it is 90 for amount_in = 100 and reserves (1000, 1000); it fails when a
\* reserve is zero; and a one-pool get_amounts_out returns that floor on
\* the pool's reserves.
C32_AmountOutFormula ==
    /\ \A x \in FormulaInputs, r_in \in FormulaInputs, r_out \in FormulaInputs :
         LET q == GetAmountOut(x, r_in, r_out)
             num == x * 997 * r_out
             den == r_in * 1000 + x * 997
         IN  /\ (r_in = 0 \/ r_out = 0) => ~q.ok
             /\ (x > 0 /\ r_in > 0 /\ r_out > 0) =>
                  /\ q.ok
                  /\ q.val * den <= num
                  /\ num < (q.val + 1) * den
    /\ GetAmountOut(100, 1000, 1000) = Ok(90)
    /\ (last.op = "get_amounts_out" /\ Len(last.path) = 2 /\ last.res.ok
          /\ last.amount_in > 0) =>
         LET r_in == ReserveSide(last.path[1], last.path[2])
             r_out == ReserveSide(last.path[2], last.path[1])
             num == last.amount_in * 997 * r_out
             den == r_in * 1000 + last.amount_in * 997
         IN  /\ last.res.val[2] * den <= num
             /\ num < (last.res.val[2] + 1) * den

\* an input of 1000 has been quoted through one pool to a non-zero output
\* smaller than the pool's reserve
C32_Witness ==
    /\ last.op = "get_amounts_out"
    /\ Len(last.path) = 2
    /\ last.res.ok
    /\ last.amount_in = 1000
    /\ last.res.val[2] > 0
    /\ last.res.val[2] < ReserveSide(last.path[2], last.path[1])

\* what every LaunchToken call tried answers in the present state
TokenOutcomes ==
    {LtMint(launch_token, c, h, n) :
        c \in LaunchAccounts, h \in LaunchAccounts, n \in TokenAmounts}
    \cup {LtBurn(launch_token, c, h, n) :
        c \in LaunchAccounts, h \in LaunchAccounts, n \in TokenAmounts}
    \cup {LtTransfer(launch_token, c, h, n) :
        c \in LaunchAccounts, h \in LaunchAccounts, n \in TokenAmounts}
    \cup {LtApprove(launch_token, c, h, n) :
        c \in LaunchAccounts, h \in LaunchAccounts, n \in 0 .. MaxTokenAmount}
    \cup {LtTransferFrom(launch_token, c, f, h, n) :
        c \in LaunchAccounts, f \in LaunchAccounts, h \in LaunchAccounts,
        n \in TokenAmounts}

\* C33: in every reachable state, mint and burn called by an address other
\* than the minter revert with Unauthorized and leave every balance and the
\* total supply as they were; called by the minter, mint adds the amount to
\* the balance and to the total supply, and burn removes it when the
\* balance covers it; and no call of any entry point changes the minter.
C33_OnlyMinterMints ==
    /\ \A c \in LaunchAccounts, h \in LaunchAccounts, n \in TokenAmounts :
         LET m == LtMint(launch_token, c, h, n)
             b == LtBurn(launch_token, c, h, n)
         IN  /\ c # launch_token.minter =>
                  /\ m.res.err = "Unauthorized" /\ m.w = launch_token
                  /\ b.res.err = "Unauthorized" /\ b.w = launch_token
             /\ c = launch_token.minter =>
                  /\ m.res.ok
                  /\ m.w.balances[h] = launch_token.balances[h] + n
                  /\ m.w.total_supply = launch_token.total_supply + n
                  /\ b.res.ok <=> launch_token.balances[h] >= n
                  /\ b.res.ok =>
                       /\ b.w.balances[h] = launch_token.balances[h] - n
                       /\ b.w.total_supply = launch_token.total_supply - n
                  /\ ~b.res.ok => b.w = launch_token
    /\ \A o \in TokenOutcomes : o.w.minter = launch_token.minter

\* a mint was refused although tokens have been minted before
C33_Witness ==
    /\ last.op = "lt_mint"
    /\ last.res.err = "Unauthorized"
    /\ launch_token.total_supply > 0

\* the sum of the balances of every holder
SumBalances(t) ==
    t.balances[Alice] + t.balances[Bob] + t.balances[Carol]
        + t.balances[CurveAddr]

\* the balances of the holders other than a and b
OtherBalances(t, a, b) == [h \in LaunchHolders \ {a, b} |-> t.balances[h]]

\* C40: in every reachable state total_supply is the sum of the balances;
\* transfer succeeds exactly when the sender's balance covers the amount,
\* transfer_from exactly when also the caller's allowance does; both leave
\* total_supply and the other holders unchanged and move exactly the amount
\* from sender to recipient (nothing when the two are the same);
\* transfer_from lowers the allowance by exactly the amount; a call that
\* reverts changes nothing.
C40_SupplyIsSumOfBalances ==
    /\ launch_token.total_supply = SumBalances(launch_token)
    /\ \A o \in TokenOutcomes : o.w.total_supply = SumBalances(o.w)
    /\ \A c \in LaunchAccounts, h \in LaunchAccounts, n \in TokenAmounts :
         LET o == LtTransfer(launch_token, c, h, n)
         IN  /\ o.res.ok <=> launch_token.balances[c] >= n
             /\ ~o.res.ok => o.w = launch_token
             /\ o.res.ok =>
                  /\ o.w.total_supply = launch_token.total_supply
                  /\ o.w.allowances = launch_token.allowances
                  /\ OtherBalances(o.w, c, h) = OtherBalances(launch_token, c, h)
                  /\ c # h => /\ o.w.balances[c] = launch_token.balances[c] - n
                              /\ o.w.balances[h] = launch_token.balances[h] + n
                  /\ c = h => o.w.balances[c] = launch_token.balances[c]
    /\ \A c \in LaunchAccounts, f \in LaunchAccounts, h \in LaunchAccounts,
          n \in TokenAmounts :
         LET o == LtTransferFrom(launch_token, c, f, h, n)
             allowed == launch_token.allowances[<<f, c>>]
         IN  /\ o.res.ok <=> (allowed >= n /\ launch_token.balances[f] >= n)
             /\ ~o.res.ok => o.w = launch_token
             /\ o.res.ok =>
                  /\ o.w.total_supply = launch_token.total_supply
                  /\ o.w.allowances[<<f, c>>] = allowed - n
                  /\ \A k \in DOMAIN o.w.allowances :
                       k # <<f, c>> =>
                         o.w.allowances[k] = launch_token.allowances[k]
                  /\ OtherBalances(o.w, f, h) = OtherBalances(launch_token, f, h)
                  /\ f # h => /\ o.w.balances[f] = launch_token.balances[f] - n
                              /\ o.w.balances[h] = launch_token.balances[h] + n
                  /\ f = h => o.w.balances[f] = launch_token.balances[f]

\* a transfer_from has succeeded and used up the allowance it was given
C40_Witness ==
    /\ last.op = "lt_transfer_from"
    /\ last.res.ok
    /\ launch_token.total_supply > 0
    /\ \A k \in DOMAIN launch_token.allowances : launch_token.allowances[k] = 0

\* the six records the factory keeps of its launches
LaunchRecords(f) ==
    <<f.launch_tokens, f.launch_curves, f.launch_creators,
      f.launch_curve_types, f.launch_statuses, f.launch_created_at>>

\* the records of f restricted to the ids in ids
LaunchRecordsOf(f, ids) ==
    [i \in 1 .. 6 |-> [id \in ids |-> LaunchRecords(f)[i][id]]]

\* the defaults and the admin
FactorySettings(f) ==
    <<f.admin, f.default_graduation_threshold, f.default_creator_fee_bps,
      f.default_deadline_days>>

\* what every admin call tried answers in the present state
AdminOutcomes ==
    {SetDefaultGraduationThreshold(token_factory, c, v) :
        c \in LaunchAccounts, v \in Settings}
    \cup {SetDefaultCreatorFeeBps(token_factory, c, v) :
        c \in LaunchAccounts, v \in Settings}
    \cup {SetDefaultDeadlineDays(token_factory, c, v) :
        c \in LaunchAccounts, v \in Settings}
    \cup {TransferAdmin(token_factory, c, a) :
        c \in LaunchAccounts, a \in LaunchAccounts}

\* C34: in every reachable state the ids recorded are 0 .. launch_count - 1;
\* a create_launch with a symbol of more than 6 characters or a curve type
\* above 2 reverts and changes nothing; any other returns the current
\* launch_count, records the caller as creator of that id with status
\* Active (0), increases launch_count by exactly 1 and leaves the record of
\* every existing id as it was; no admin call changes any record.
C34_LaunchIdsInOrder ==
    /\ \A i \in 1 .. 6 :
         DOMAIN LaunchRecords(token_factory)[i]
            = 0 .. token_factory.launch_count - 1
    /\ \A c \in LaunchAccounts, l \in SymbolLengths, t \in CurveTypes :
         LET o == CreateLaunch(token_factory, c, l, t, now)
             ids == 0 .. token_factory.launch_count - 1
         IN  /\ (l > 6 \/ t > 2) => (~o.res.ok /\ o.w = token_factory)
             /\ (l <= 6 /\ t <= 2) =>
                  /\ o.res.ok
                  /\ o.res.val = token_factory.launch_count
                  /\ o.w.launch_creators[o.res.val] = c
                  /\ o.w.launch_statuses[o.res.val] = STATUS_ACTIVE
                  /\ o.w.launch_curve_types[o.res.val] = t
                  /\ o.w.launch_count = token_factory.launch_count + 1
                  /\ LaunchRecordsOf(o.w, ids)
                       = LaunchRecordsOf(token_factory, ids)
                  /\ FactorySettings(o.w) = FactorySettings(token_factory)
    /\ \A o \in AdminOutcomes :
         /\ LaunchRecords(o.w) = LaunchRecords(token_factory)
         /\ o.w.launch_count = token_factory.launch_count

\* a second launch was created, by another account than the first
C34_Witness ==
    /\ last.op = "create_launch"
    /\ last.res.ok
    /\ last.res.val = 1
    /\ token_factory.launch_count = 2
    /\ token_factory.launch_creators[0] # token_factory.launch_creators[1]

\* C35: in every reachable state each of the three setters and
\* transfer_admin, called by an address other than the admin, reverts with
\* Unauthorized and leaves the defaults and the admin unchanged; called by
\* the admin it writes its argument and nothing else; and in the state
\* transfer_admin(new_admin) leaves, the four calls succeed for new_admin
\* and for no other caller.
C35_OnlyAdminSets ==
    /\ \A c \in LaunchAccounts, v \in Settings :
         LET f == token_factory
             th == SetDefaultGraduationThreshold(f, c, v)
             fee == SetDefaultCreatorFeeBps(f, c, v)
             days == SetDefaultDeadlineDays(f, c, v)
         IN  /\ c # f.admin =>
                  \A o \in {th, fee, days} :
                      o.res.err = "Unauthorized" /\ o.w = f
             /\ c = f.admin =>
                  /\ th.res.ok /\ fee.res.ok /\ days.res.ok
                  /\ th.w = [f EXCEPT !.default_graduation_threshold = v]
                  /\ fee.w = [f EXCEPT !.default_creator_fee_bps = v]
                  /\ days.w = [f EXCEPT !.default_deadline_days = v]
    /\ \A c \in LaunchAccounts, a \in LaunchAccounts :
         LET f == token_factory
             o == TransferAdmin(f, c, a)
         IN  /\ c # f.admin => (o.res.err = "Unauthorized" /\ o.w = f)
             /\ c = f.admin =>
                  /\ o.res.ok
                  /\ o.w = [f EXCEPT !.admin = a]
                  /\ \A c2 \in LaunchAccounts, v \in Settings :
                       /\ SetDefaultGraduationThreshold(o.w, c2, v).res.ok
                            <=> c2 = a
                       /\ SetDefaultCreatorFeeBps(o.w, c2, v).res.ok <=> c2 = a
                       /\ SetDefaultDeadlineDays(o.w, c2, v).res.ok <=> c2 = a
                       /\ TransferAdmin(o.w, c2, c).res.ok <=> c2 = a

\* the admin role was handed over and the new admin has set the fee
C35_Witness ==
    /\ last.op = "set_default_creator_fee_bps"
    /\ last.res.ok
    /\ token_factory.admin # Carol
    /\ token_factory.default_creator_fee_bps # DEFAULT_CREATOR_FEE_BPS

\* C36: in every reachable state a remove_liquidity(.., liquidity, ..) that
\* succeeds lowers the LP total supply and the caller's LP balance by
\* exactly `liquidity` and pays out floor(liquidity * reserve / total_supply)
\* of each token, whatever LP shares the pool's own address held.
C36_BurnsExactlyLiquidity ==
    ThePool \in created =>
    \A a \in RemoveTries :
        LET o == RouterRemoveLiquidity(World, a.caller, a, now)
            supply == lp_total_supply[ThePool]
        IN  o.res.ok =>
              /\ o.w.lp_total_supply[ThePool] = supply - a.liquidity
              /\ o.w.lp_balances[ThePool][a.caller]
                   = lp_balances[ThePool][a.caller] - a.liquidity
              /\ o.res.val[1]
                   = (a.liquidity * ReserveOf(a.token_a)) \div supply
              /\ o.res.val[2]
                   = (a.liquidity * ReserveOf(a.token_b)) \div supply

\* the entry points of the pool a Token Ledger callback can invoke, skim and
\* sync among them
PoolCallbacks ==
    { [site |-> 1, op |-> o, to |-> Bob, a0 |-> 1, a1 |-> 0] :
        o \in {"mint", "burn", "swap", "skim", "sync"} }

\* the pool right after mint, burn or swap has taken the lock
InProgress == Lock(World, ThePool)

\* C37: in every reachable state, once mint, burn or swap has taken the lock
\* of the pool, a call of mint, burn, swap, skim or sync made from a Token
\* Ledger callback leaves the recorded reserves as they are and takes no
\* token out of the pool.
C37_NestedCallsInert ==
    (ThePool \in created /\ InProgress.res.ok) =>
    \A cb \in PoolCallbacks :
        LET w == InProgress.w
            n == NestedCall(w, ThePool, w.token0[ThePool], cb, now)
        IN  /\ n.w.reserve0[ThePool] = w.reserve0[ThePool]
            /\ n.w.reserve1[ThePool] = w.reserve1[ThePool]
            /\ TokenBalanceOf(n.w, TokenA, ThePool)
                 >= TokenBalanceOf(w, TokenA, ThePool)
            /\ TokenBalanceOf(n.w, TokenB, ThePool)
                 >= TokenBalanceOf(w, TokenB, ThePool)

\* what the callers of the curve try in a state
BuyTries == LaunchAccounts \X Payments \X {0, 3}
SellTries == LaunchAccounts \X (0 .. 2) \X {0, 3}

\* buy, sell, graduate and claim_refund succeed only in the statuses allowed
StatusGuards ==
    LET c == bonding_curve
    IN  /\ \A a \in BuyTries :
             CurveBuy(CurveWorld, a[1], a[2], a[3]).res.ok
                 => c.status = STATUS_ACTIVE
        /\ \A a \in SellTries :
             CurveSell(CurveWorld, a[1], a[2], a[3]).res.ok
                 => c.status = STATUS_ACTIVE
        /\ \A u \in LaunchAccounts :
             CurveGraduate(CurveWorld, u).res.ok
                 => /\ c.status = STATUS_ACTIVE
                    /\ c.cspr_raised >= c.graduation_threshold
        /\ \A u \in LaunchAccounts :
             CurveClaimRefund(CurveWorld, u, now).res.ok
                 => /\ c.status # STATUS_GRADUATED
                    /\ ~(c.status = STATUS_ACTIVE /\ now < c.deadline)

\* the only changes of the status: Active to Graduated by a buy that reaches
\* the threshold or by graduate(), Active to Refunding by a claim_refund at
\* or after the deadline
StatusStep ==
    bonding_curve'.status # bonding_curve.status =>
        /\ bonding_curve.status = STATUS_ACTIVE
        /\ last'.res.ok
        /\ \/ /\ bonding_curve'.status = STATUS_GRADUATED
              /\ last'.op \in {"buy", "graduate"}
              /\ bonding_curve'.cspr_raised
                     >= bonding_curve.graduation_threshold
           \/ /\ bonding_curve'.status = STATUS_REFUNDING
              /\ last'.op = "claim_refund"
              /\ now >= bonding_curve.deadline

\* C38: the status starts Active; it changes only from Active, to Graduated
\* (a buy that brings cspr_raised to the threshold, or graduate()) or to
\* Refunding (a claim_refund that succeeds at or after the deadline); buy and
\* sell succeed only while Active, graduate() only while Active with
\* cspr_raised >= threshold, claim_refund never once Graduated nor while
\* Active before the deadline.
C38_StatusMachine ==
    /\ bonding_curve.status = STATUS_ACTIVE
    /\ []StatusGuards
    /\ [][StatusStep]_vars

\* a claim_refund after the deadline has moved the curve to Refunding
C38_Witness ==
    /\ last.op = "claim_refund"
    /\ last.res.ok
    /\ bonding_curve.status = STATUS_REFUNDING
    /\ bonding_curve.cspr_raised > 0

\* the sum of contribution_of(user) over the accounts
RECURSIVE SumContributions(_, _)
SumContributions(c, users) ==
    IF users = {} THEN 0
    ELSE LET u == CHOOSE x \in users : TRUE
         IN  c.contributions[u] + SumContributions(c, users \ {u})

\* C39: in every reachable state the CSPR the curve holds is at least the sum
\* of the contributions of all users, and a claim_refund that succeeds pays
\* the caller's contribution and clears it.
C39_SolventForRefunds ==
    /\ bonding_curve.purse >= SumContributions(bonding_curve, LaunchAccounts)
    /\ \A u \in LaunchAccounts :
         LET o == CurveClaimRefund(CurveWorld, u, now)
         IN  o.res.ok =>
               /\ o.w.bc.contributions[u] = 0
               /\ o.w.bc.purse
                    = bonding_curve.purse - bonding_curve.contributions[u]


=============================================================================
